---- MODULE Spec2Model ----
(***************************************************************************)
(* LiveQuiz: the REST + WebSocket backend (app.py) and the load test       *)
(* harnesses (load_test.py, socket_load_test.py).                          *)
(*                                                                         *)
(* The database is the record db: one function per table, from the row's   *)
(* id to the columns the handlers read or decide on, and the SERIAL        *)
(* sequence of each table.  A request is a record: its handler, its URL    *)
(* id, its JSON body, the handler's locals, the events it emitted and the  *)
(* response.  Each handler is a sequence of steps (its pc); Step runs one  *)
(* step and Run runs a request to its end.                                 *)
(*                                                                         *)
(*   Spec        one request at a time, each handler run as a whole        *)
(*   SpecAdmin   the admin page: create_activity and update_activity       *)
(*   SpecGroups  the groups of an activity, written and read               *)
(*   SpecRefs    users and answers and the rows they refer to              *)
(*   SpecConc    two requests in flight, interleaved step by step          *)
(*   SpecLoad    run_load_test of load_test.py                             *)
(*   SpecSocket  run_socket_load_test of socket_load_test.py               *)
(*   SpecHarness the two load tests and their worker pools                 *)
(*   SpecStats   get_statistics of the two test results                    *)
(*   SpecWs      the Socket.IO event handlers of app.py                    *)
(*   SpecActivityStats  get_activity_stats over two activities             *)
(*   SpecEvents  the socket clients' connect, events and disconnect        *)
(*   SpecEmit    emit_event of two connected socket clients                *)
(***************************************************************************)
EXTENDS Integers, Sequences, FiniteSets, TLC

VARIABLES db, reqs, lt, sock, ws

vars == <<db, reqs, lt, sock, ws>>

(***************************************************************************)
(* Bounds of the model.                                                    *)
(***************************************************************************)
\* rows ever inserted into questions (the SERIAL sequence stops there)
MaxQuestions == 1
\* rows ever inserted into activities
MaxActivities == 1
\* rows ever inserted into users
MaxUsers == 1
\* rows ever inserted into answers
MaxAnswers == 2

(***************************************************************************)
(* Values.  A nullable integer (a JSON null, a Python None, an SQL NULL)   *)
(* is None or Some(n).                                                     *)
(***************************************************************************)
None == <<>>

Some(v) == <<v>>

\* Python's truth value of an int-or-None: None and 0 are false.
Truthy(o) == o # None /\ o[1] # 0

\* dict.get(key): the value, or None when the body lacks the key.
Get(data, key) == IF key \in data.has THEN data[key] ELSE None

\* A request body with no key.  Absent keys keep these placeholder values.
NoData ==
  [has |-> {}, answer_limit |-> None, status |-> "", current_question_id |-> None,
   groups_count |-> None, groups |-> <<>>, display_mode |-> "",
   projected_answer |-> "", stats_limit |-> 0,
   activity_id |-> 0, question_id |-> 0, user_id |-> 0, group_name |-> None]

(***************************************************************************)
(* The database after init_db on an empty server: four empty tables.       *)
(***************************************************************************)
EmptyDb ==
  [questions |-> <<>>, activities |-> <<>>, users |-> <<>>, answers |-> <<>>,
   seq |-> [questions |-> 1, activities |-> 1, users |-> 1, answers |-> 1],
   clock |-> 1]

\* DELETE ... WHERE id = %s on a table (a function from ids to rows).
DeleteRow(table, id) == [i \in (DOMAIN table) \ {id} |-> table[i]]

\* INSERT ... RETURNING id: the row gets the sequence's next value.
InsertRow(d, table, row) ==
  [d EXCEPT ![table] = (d.seq[table] :> row) @@ @, !.seq[table] = @ + 1]

\* A failed INSERT still consumes the sequence value (nextval is not rolled back).
BurnId(d, table) == [d EXCEPT !.seq[table] = @ + 1]

(***************************************************************************)
(* Requests.                                                               *)
(***************************************************************************)
Slots == {1, 2}

\* The JSON a read handler answers with; keys it does not send keep these values.
NoBody ==
  [error |-> "", activity |-> None, groups |-> <<>>, groups_count |-> None,
   stats |-> None]

IdleReq ==
  [h |-> "", pc |-> "idle", id |-> 0, data |-> NoData,
   question |-> None, has_question |-> FALSE, answer_count |-> 0,
   new_id |-> 0, cur_open |-> FALSE, committed |-> FALSE, rowcount |-> -1,
   events |-> <<>>, code |-> 0, error_code |-> "", body |-> NoBody]

\* The handler's first statement, after get_db_connection() and conn.cursor().
NewReq(h, id, data, pc) ==
  [IdleReq EXCEPT !.h = h, !.id = id, !.data = data, !.pc = pc, !.cur_open = TRUE]

\* socketio.emit(name, payload) outside a Socket.IO handler: to every client.
EmitDropped(events, name, payload) == events

Emit(events, name, payload) ==
  Append(events, [name |-> name, to |-> "all", payload |-> payload])

\* return jsonify(...), code
Respond(r, code) == [r EXCEPT !.pc = "done", !.code = code]

\* An exception leaves the handler: Flask answers 500; the connection is dropped
\* without commit, so nothing of the transaction is stored.
Raise(r) == [r EXCEPT !.pc = "done", !.code = 500]

\* conn.commit() of a statement that touched n rows, then cur.close(), conn.close().
CommitLost(d0, d1) == d0

Commit(d0, d1) == d1

(***************************************************************************)
(* create_question                                                         *)
(***************************************************************************)
\* answer_limit = data.get('answer_limit'); int(...) if truthy, else None
NormLimit(data) ==
  LET v == Get(data, "answer_limit") IN IF Truthy(v) THEN v ELSE None

CreateQuestionInsert(d, r) ==
  LET id == d.seq.questions
      d1 == InsertRow(d, "questions", [answer_limit |-> NormLimit(r.data)])
  IN  [db |-> Commit(d, d1),
       r  |-> [r EXCEPT !.new_id = id, !.rowcount = 1, !.committed = TRUE,
                        !.cur_open = FALSE, !.pc = "emit"]]

CreateQuestionEmit(d, r) ==
  [db |-> d,
   r  |-> Respond([r EXCEPT !.events = Emit(@, "question_created", [id |-> r.new_id])],
                  201)]

(***************************************************************************)
(* update_question, delete_question                                        *)
(***************************************************************************)
UpdateQuestionUpdate(d, r) ==
  LET hit == r.id \in DOMAIN d.questions
      d1  == IF hit
             THEN [d EXCEPT !.questions[r.id] = [answer_limit |-> NormLimit(r.data)]]
             ELSE d
  IN  [db |-> Commit(d, d1),
       r  |-> [r EXCEPT !.rowcount = IF hit THEN 1 ELSE 0, !.committed = TRUE,
                        !.cur_open = FALSE, !.pc = "emit"]]

UpdateQuestionEmit(d, r) ==
  [db |-> d,
   r  |-> Respond([r EXCEPT !.events = Emit(@, "question_updated", [id |-> r.id])],
                  200)]

\* answers.question_id REFERENCES questions(id): a question with answers
\* cannot be deleted, the DELETE raises.
QuestionReferenced(d, qid) ==
  \E a \in DOMAIN d.answers : d.answers[a].question_id = qid

DeleteQuestionDelete(d, r) ==
  LET hit == r.id \in DOMAIN d.questions
      d1  == [d EXCEPT !.questions = DeleteRow(@, r.id)]
  IN  IF QuestionReferenced(d, r.id)
      THEN [db |-> d, r |-> Raise(r)]
      ELSE [db |-> Commit(d, d1),
            r  |-> [r EXCEPT !.rowcount = IF hit THEN 1 ELSE 0, !.committed = TRUE,
                             !.cur_open = FALSE, !.pc = "emit"]]

DeleteQuestionEmit(d, r) ==
  [db |-> d,
   r  |-> Respond([r EXCEPT !.events = Emit(@, "question_deleted", [id |-> r.id])],
                  200)]

(***************************************************************************)
(* create_activity                                                         *)
(***************************************************************************)
\* The columns the INSERT does not name take the table's defaults.
NewActivityActive(groups_count, groups_json) ==
  [status |-> "active", current_question_id |-> None,
   groups_count |-> groups_count, groups |-> groups_json,
   display_mode |-> "none", started_at |-> None, ended_at |-> None]

NewActivity(groups_count, groups_json) ==
  [status |-> "preparing", current_question_id |-> None,
   groups_count |-> groups_count, groups |-> groups_json,
   display_mode |-> "none", started_at |-> None, ended_at |-> None]

CreateActivityInsert(d, r) ==
  LET gc0    == Get(r.data, "groups_count")
      groups == IF "groups" \in r.data.has THEN r.data.groups ELSE <<>>
      named  == groups # <<>>
      gc     == IF named /\ ~Truthy(gc0) THEN Some(Len(groups)) ELSE gc0
      gjson  == IF named THEN Some(groups) ELSE None
      id     == d.seq.activities
      d1     == InsertRow(d, "activities", NewActivity(gc, gjson))
  IN  [db |-> Commit(d, d1),
       r  |-> [r EXCEPT !.new_id = id, !.rowcount = 1, !.committed = TRUE,
                        !.cur_open = FALSE, !.pc = "emit"]]

CreateActivityEmit(d, r) ==
  [db |-> d,
   r  |-> Respond([r EXCEPT !.events = Emit(@, "activity_created", [id |-> r.new_id])],
                  201)]

(***************************************************************************)
(* update_activity                                                         *)
(***************************************************************************)
\* The column names of the SET clause the handler builds.
UpdatedColumnsWithoutStart(data) ==
  (IF "status" \in data.has THEN {"status"} ELSE {})
  \cup (IF "current_question_id" \in data.has THEN {"current_question_id"} ELSE {})
  \cup (IF "groups_count" \in data.has THEN {"groups_count"} ELSE {})
  \cup (IF "groups" \in data.has THEN {"groups"} ELSE {})
  \cup (IF "groups" \in data.has /\ data.groups # <<>> /\ "groups_count" \notin data.has
        THEN {"groups_count"} ELSE {})
  \cup (IF "display_mode" \in data.has THEN {"display_mode"} ELSE {})

UpdatedColumns(data) ==
  (IF "status" \in data.has THEN {"status"} ELSE {})
  \cup (IF "status" \in data.has /\ data.status = "active" THEN {"started_at"} ELSE {})
  \cup (IF "current_question_id" \in data.has THEN {"current_question_id"} ELSE {})
  \cup (IF "groups_count" \in data.has THEN {"groups_count"} ELSE {})
  \cup (IF "groups" \in data.has THEN {"groups"} ELSE {})
  \cup (IF "groups" \in data.has /\ data.groups # <<>> /\ "groups_count" \notin data.has
        THEN {"groups_count"} ELSE {})
  \cup (IF "display_mode" \in data.has THEN {"display_mode"} ELSE {})

\* The row after UPDATE activities SET ... with the handler's values.
UpdatedActivityStoringAnswer(row, data, now) ==
  [status |-> IF "status" \in data.has THEN data.status ELSE row.status,
   started_at |-> IF "status" \in data.has /\ data.status = "active"
                  THEN Some(now) ELSE row.started_at,
   ended_at |-> row.ended_at,
   current_question_id |->
     IF "current_question_id" \in data.has THEN data.current_question_id
     ELSE row.current_question_id,
   groups_count |-> row.groups_count,
   groups |-> row.groups,
   display_mode |-> IF "projected_answer" \in data.has THEN data.projected_answer
                    ELSE IF "display_mode" \in data.has THEN data.display_mode
                    ELSE row.display_mode]

UpdatedActivity(row, data, now) ==
  LET cols == UpdatedColumns(data)
  IN  [status |-> IF "status" \in cols THEN data.status ELSE row.status,
       started_at |-> IF "started_at" \in cols THEN Some(now) ELSE row.started_at,
       ended_at |-> row.ended_at,
       current_question_id |->
         IF "current_question_id" \in cols THEN data.current_question_id
         ELSE row.current_question_id,
       groups_count |->
         IF "groups_count" \in data.has
         THEN (IF Truthy(data.groups_count) THEN data.groups_count ELSE None)
         ELSE IF "groups_count" \in cols THEN Some(Len(data.groups))
         ELSE row.groups_count,
       groups |->
         IF "groups" \in cols
         THEN (IF data.groups # <<>> THEN Some(data.groups) ELSE None)
         ELSE row.groups,
       display_mode |-> IF "display_mode" \in cols THEN data.display_mode
                        ELSE row.display_mode]

UpdateActivityUpdate(d, r) ==
  LET cols == UpdatedColumns(r.data)
      hit  == r.id \in DOMAIN d.activities
      d1   == IF hit
              THEN [d EXCEPT !.activities[r.id] = UpdatedActivity(@, r.data, d.clock),
                             !.clock = IF "started_at" \in cols THEN @ + 1 ELSE @]
              ELSE d
  IN  IF cols # {}
      THEN [db |-> Commit(d, d1),
            r  |-> [r EXCEPT !.rowcount = IF hit THEN 1 ELSE 0, !.committed = TRUE,
                             !.cur_open = FALSE, !.pc = "emit"]]
      ELSE [db |-> d, r |-> [r EXCEPT !.cur_open = FALSE, !.pc = "emit"]]

\* display_data of the display_mode branch
DisplayDataAlwaysAnswer(id, data) ==
  [activity_id |-> id, display_mode |-> data.display_mode,
   answer |-> data.projected_answer]
  @@ (IF "stats_limit" \in data.has THEN [stats_limit |-> data.stats_limit]
      ELSE <<>>)

DisplayData(id, data) ==
  [activity_id |-> id, display_mode |-> data.display_mode]
  @@ (IF "projected_answer" \in data.has THEN [answer |-> data.projected_answer]
      ELSE <<>>)
  @@ (IF "stats_limit" \in data.has THEN [stats_limit |-> data.stats_limit]
      ELSE <<>>)

\* cur.execute(...) on the handler's cursor: psycopg2 raises InterfaceError
\* once cur.close() has run.
CursorUsable(r) == r.cur_open

UpdateActivityEmit(d, r) ==
  LET data == r.data
      r1   == [r EXCEPT !.events =
                 Emit(@, "activity_updated", [activity_id |-> r.id, updates |-> data])]
  IN  IF "display_mode" \in data.has
      THEN [db |-> d,
            r  |-> Respond([r1 EXCEPT !.events =
                              Emit(@, "display_update", DisplayData(r.id, data))],
                           200)]
      ELSE IF "status" \in data.has /\ data.status = "active"
              /\ "current_question_id" \in data.has
      THEN IF ~CursorUsable(r1)
           THEN [db |-> d, r |-> Raise(r1)]
           ELSE IF r.id \in DOMAIN d.activities
           THEN LET stored == d.activities[r.id].display_mode
                    mode   == IF stored = "" THEN "question" ELSE stored
                IN  [db |-> d,
                     r  |-> Respond([r1 EXCEPT !.events =
                                       Emit(@, "display_update",
                                            [activity_id |-> r.id, display_mode |-> mode])],
                                    200)]
           ELSE [db |-> d, r |-> Respond(r1, 200)]
      ELSE [db |-> d, r |-> Respond(r1, 200)]

(***************************************************************************)
(* join_activity                                                           *)
(***************************************************************************)
\* SQL NULL in an id column, stored when the body gives JSON null for the id.
\* The id columns of users and answers are not declared NOT NULL.
NullId == -1

\* column INTEGER REFERENCES table(id): NULL, or the id of a row of the table
References(id, table) == id = NullId \/ id \in DOMAIN table

JoinActivityInsert(d, r) ==
  LET id == d.seq.users
      d1 == InsertRow(d, "users", [activity_id |-> r.data.activity_id,
                                   group_name |-> Get(r.data, "group_name")])
  IN  IF ~References(r.data.activity_id, d.activities)
      THEN [db |-> BurnId(d, "users"), r |-> Raise(r)]
      ELSE [db |-> Commit(d, d1),
            r  |-> [r EXCEPT !.new_id = id, !.rowcount = 1, !.committed = TRUE,
                             !.cur_open = FALSE, !.pc = "emit"]]

JoinActivityEmit(d, r) ==
  [db |-> d,
   r  |-> Respond([r EXCEPT !.events =
                     Emit(@, "user_joined",
                          [activity_id |-> r.data.activity_id, user_id |-> r.new_id])],
                  201)]

(***************************************************************************)
(* submit_answer                                                           *)
(***************************************************************************)
\* SELECT COUNT(*) FROM answers WHERE question_id = %s AND user_id = %s;
\* a comparison with NULL is true of no row
CountAnswers(d, qid, uid) ==
  Cardinality({a \in DOMAIN d.answers :
                 /\ qid # NullId /\ d.answers[a].question_id = qid
                 /\ uid # NullId /\ d.answers[a].user_id = uid})

\* SELECT answer_limit FROM questions WHERE id = %s
SubmitAnswerSelectLimit(d, r) ==
  LET found == r.data.question_id \in DOMAIN d.questions
      limit == IF found THEN d.questions[r.data.question_id].answer_limit ELSE None
  IN  [db |-> d,
       r  |-> [r EXCEPT !.has_question = found, !.question = limit,
                        !.pc = IF found /\ Truthy(limit) THEN "select_count"
                               ELSE "insert"]]

\* if answer_count >= answer_limit: the request is refused
LimitReachedOffByOne(count, limit) == count > limit

LimitReached(count, limit) == count >= limit

SubmitAnswerSelectCount(d, r) ==
  LET count == CountAnswers(d, r.data.question_id, r.data.user_id)
      r1    == [r EXCEPT !.answer_count = count]
  IN  IF LimitReached(count, r.question[1])
      THEN [db |-> d,
            r  |-> Respond([r1 EXCEPT !.cur_open = FALSE,
                                      !.error_code = "ANSWER_LIMIT_EXCEEDED"], 400)]
      ELSE [db |-> d, r |-> [r1 EXCEPT !.pc = "insert"]]

\* The body names an existing activity, question and user.
AnswerReferencesExist(d, data) ==
  /\ data.activity_id \in DOMAIN d.activities
  /\ data.question_id \in DOMAIN d.questions
  /\ data.user_id \in DOMAIN d.users

\* The three REFERENCES constraints of the answers table.
AnswerReferencesHold(d, data) ==
  /\ References(data.activity_id, d.activities)
  /\ References(data.question_id, d.questions)
  /\ References(data.user_id, d.users)

SubmitAnswerInsert(d, r) ==
  LET id == d.seq.answers
      d1 == InsertRow(d, "answers",
                      [activity_id |-> r.data.activity_id,
                       question_id |-> r.data.question_id,
                       user_id |-> r.data.user_id])
  IN  IF ~AnswerReferencesHold(d, r.data)
      THEN [db |-> BurnId(d, "answers"), r |-> Raise(r)]
      ELSE [db |-> Commit(d, d1),
            r  |-> [r EXCEPT !.new_id = id, !.rowcount = 1, !.committed = TRUE,
                             !.cur_open = FALSE, !.pc = "emit"]]

SubmitAnswerEmit(d, r) ==
  [db |-> d,
   r  |-> Respond([r EXCEPT !.events =
                     Emit(@, "answer_submitted",
                          [activity_id |-> r.data.activity_id,
                           question_id |-> r.data.question_id])],
                  201)]

(***************************************************************************)
(* get_activity, get_activity_groups                                       *)
(***************************************************************************)
\* return jsonify({'error': 'Activity not found'}), 404
NotFoundAnswers200(r) ==
  Respond([r EXCEPT !.body.error = "Activity not found", !.cur_open = FALSE], 200)

NotFound(r) ==
  Respond([r EXCEPT !.body.error = "Activity not found", !.cur_open = FALSE], 404)

\* the activity row with its users and its answers (joined with their users)
ActivityDetails(d, id) ==
  [row |-> d.activities[id],
   users |-> {u \in DOMAIN d.users : d.users[u].activity_id = id},
   answers |-> {a \in DOMAIN d.answers :
                  d.answers[a].activity_id = id /\ d.answers[a].user_id \in DOMAIN d.users}]

GetActivity(d, r) ==
  IF r.id \notin DOMAIN d.activities
  THEN [db |-> d, r |-> NotFound(r)]
  ELSE [db |-> d,
        r  |-> Respond([r EXCEPT !.body.activity = Some(ActivityDetails(d, r.id)),
                                 !.cur_open = FALSE], 200)]

\* f'第{i}組': the generated name of group i
GroupName(i) == "group " \o ToString(i)

\* [f'第{i}組' for i in range(1, groups_count + 1)]
GeneratedGroupsShort(n) == [i \in 1..(n - 1) |-> GroupName(i)]

GeneratedGroups(n) == [i \in 1..n |-> GroupName(i)]

GetActivityGroups(d, r) ==
  IF r.id \notin DOMAIN d.activities
  THEN [db |-> d, r |-> NotFound(r)]
  ELSE LET row        == d.activities[r.id]
           groups     == IF row.groups # None /\ row.groups[1] # <<>>
                         THEN row.groups[1] ELSE <<>>
           group_list == IF groups # <<>> THEN groups
                         ELSE IF Truthy(row.groups_count)
                         THEN GeneratedGroups(row.groups_count[1])
                         ELSE <<>>
       IN  [db |-> d,
            r  |-> Respond([r EXCEPT !.body.groups = group_list,
                                     !.body.groups_count = row.groups_count,
                                     !.cur_open = FALSE], 200)]

(***************************************************************************)
(* get_activity_stats                                                      *)
(***************************************************************************)
\* WHERE u.activity_id = %s: the users of the activity
UsersOf(d, id) == {u \in DOMAIN d.users : d.users[u].activity_id = id}

\* LEFT JOIN answers a ON a.user_id = u.id AND a.question_id = %s AND
\* a.activity_id = %s, for the users in us
JoinedAnswers(d, us, qid, id) ==
  {a \in DOMAIN d.answers :
     /\ d.answers[a].user_id \in us /\ d.answers[a].question_id = qid
     /\ d.answers[a].activity_id = id}

\* COALESCE(u.group_name, <the name of the users without a group>)
GroupOf(d, u) ==
  IF d.users[u].group_name = None THEN "ungrouped" ELSE d.users[u].group_name[1]

\* The two statistics queries run only for a truthy current_question_id.  The
\* rows of user_stats are kept by user id and those of group_stats by group
\* name; their order and avg_answers_per_person are left out.
GetActivityStats(d, r) ==
  LET id      == r.id
      current == IF id \in DOMAIN d.activities
                 THEN d.activities[id].current_question_id ELSE None
      us      == UsersOf(d, id)
      user_stats ==
        IF Truthy(current)
        THEN [u \in us |->
                [answer_count |->
                   Cardinality(JoinedAnswers(d, {u}, current[1], id))]]
        ELSE <<>>
      group_stats ==
        IF Truthy(current)
        THEN [g \in {GroupOf(d, u) : u \in us} |->
                LET members == {u \in us : GroupOf(d, u) = g}
                IN  [member_count |-> Cardinality(members),
                     total_answers |->
                       Cardinality(JoinedAnswers(d, members, current[1], id))]]
        ELSE <<>>
  IN  [db |-> d,
       r  |-> Respond(
                [r EXCEPT
                   !.body.stats =
                     Some([user_count |-> Cardinality(us),
                           answer_count |->
                             Cardinality({a \in DOMAIN d.answers :
                                            d.answers[a].activity_id = id}),
                           current_question_id |-> current,
                           user_stats |-> user_stats,
                           group_stats |-> group_stats]),
                   !.cur_open = FALSE], 200)]

(***************************************************************************)
(* One step of a request, and a request run to its end.                    *)
(***************************************************************************)
Step(d, r) ==
  CASE r.h = "create_question" /\ r.pc = "insert" -> CreateQuestionInsert(d, r)
    [] r.h = "create_question" /\ r.pc = "emit"   -> CreateQuestionEmit(d, r)
    [] r.h = "update_question" /\ r.pc = "update" -> UpdateQuestionUpdate(d, r)
    [] r.h = "update_question" /\ r.pc = "emit"   -> UpdateQuestionEmit(d, r)
    [] r.h = "delete_question" /\ r.pc = "delete" -> DeleteQuestionDelete(d, r)
    [] r.h = "delete_question" /\ r.pc = "emit"   -> DeleteQuestionEmit(d, r)
    [] r.h = "create_activity" /\ r.pc = "insert" -> CreateActivityInsert(d, r)
    [] r.h = "create_activity" /\ r.pc = "emit"   -> CreateActivityEmit(d, r)
    [] r.h = "update_activity" /\ r.pc = "update" -> UpdateActivityUpdate(d, r)
    [] r.h = "update_activity" /\ r.pc = "emit"   -> UpdateActivityEmit(d, r)
    [] r.h = "join_activity" /\ r.pc = "insert"   -> JoinActivityInsert(d, r)
    [] r.h = "join_activity" /\ r.pc = "emit"     -> JoinActivityEmit(d, r)
    [] r.h = "submit_answer" /\ r.pc = "select_limit" -> SubmitAnswerSelectLimit(d, r)
    [] r.h = "submit_answer" /\ r.pc = "select_count" -> SubmitAnswerSelectCount(d, r)
    [] r.h = "submit_answer" /\ r.pc = "insert"   -> SubmitAnswerInsert(d, r)
    [] r.h = "submit_answer" /\ r.pc = "emit"     -> SubmitAnswerEmit(d, r)
    [] r.h = "get_activity" /\ r.pc = "select"    -> GetActivity(d, r)
    [] r.h = "get_activity_groups" /\ r.pc = "select" -> GetActivityGroups(d, r)
    [] r.h = "get_activity_stats" /\ r.pc = "select" -> GetActivityStats(d, r)

RECURSIVE Run(_, _)
Run(d, r) == IF r.pc = "done" THEN [db |-> d, r |-> r]
             ELSE LET s == Step(d, r) IN Run(s.db, s.r)

(***************************************************************************)
(* Request bodies and URL ids the clients send.                            *)
(***************************************************************************)
\* answer_limit as a client may send it: null, 0, a count or a negative number
LimitInputs == {None, Some(0), Some(1), Some(2), Some(-1)}

QuestionBodies ==
  {NoData} \cup
  {[NoData EXCEPT !.has = {"answer_limit"}, !.answer_limit = v] : v \in LimitInputs}

\* ids a client may name in a URL: a row that exists, was deleted or is yet to come
QuestionIds == 1..MaxQuestions

ActivityIds == 1..MaxActivities

\* ids a body may name: also one past the last row there can be
ActivityRefs == 1..(MaxActivities + 1)

UserRefs == 1..(MaxUsers + 1)

\* create_activity: no groups, a number of groups, named groups, and a body
\* with keys the handler does not read
CreateActivityBodies ==
  {NoData,
   [NoData EXCEPT !.has = {"groups_count"}, !.groups_count = Some(2)],
   [NoData EXCEPT !.has = {"groups"}, !.groups = <<"A", "B">>],
   [NoData EXCEPT !.has = {"status", "display_mode", "current_question_id"},
                  !.status = "active", !.display_mode = "stats",
                  !.current_question_id = Some(1)]}

StatusInputs == {"active", "ended", "paused"}

DisplayModeInputs == {"answer", "stats", "fullscreen"}

\* An update_activity body: each argument is <<>> (the key is absent) or <<value>>.
ActivityBody(st, cq, dm, pa, sl) ==
  [NoData EXCEPT
     !.has = (IF st # <<>> THEN {"status"} ELSE {})
             \cup (IF cq # <<>> THEN {"current_question_id"} ELSE {})
             \cup (IF dm # <<>> THEN {"display_mode"} ELSE {})
             \cup (IF pa # <<>> THEN {"projected_answer"} ELSE {})
             \cup (IF sl # <<>> THEN {"stats_limit"} ELSE {}),
     !.status = IF st # <<>> THEN st[1] ELSE "",
     !.current_question_id = IF cq # <<>> THEN cq[1] ELSE None,
     !.display_mode = IF dm # <<>> THEN dm[1] ELSE "",
     !.projected_answer = IF pa # <<>> THEN pa[1] ELSE "",
     !.stats_limit = IF sl # <<>> THEN sl[1] ELSE 0]

\* Every combination of the keys update_activity looks at.
UpdateActivityBodies ==
  {ActivityBody(st, cq, dm, pa, sl) :
     st \in {<<>>} \cup {<<s>> : s \in StatusInputs},
     cq \in {<<>>} \cup {<<Some(q)>> : q \in QuestionIds},
     dm \in {<<>>} \cup {<<m>> : m \in DisplayModeInputs},
     pa \in {<<>>, <<"an answer">>},
     sl \in {<<>>, <<5>>}}

\* The updates the admin page sends while participants answer: start the
\* activity on a question, switch the display, and a body with no known key.
LiveActivityBodies ==
  {ActivityBody(<<>>, <<>>, <<>>, <<>>, <<>>),
   ActivityBody(<<"active">>, <<Some(1)>>, <<>>, <<>>, <<>>),
   ActivityBody(<<>>, <<>>, <<"stats">>, <<>>, <<5>>)}

SubmitAnswerBodies ==
  {[NoData EXCEPT !.has = {"activity_id", "question_id", "user_id"},
                  !.activity_id = a, !.question_id = q, !.user_id = u] :
     a \in ActivityRefs, q \in QuestionIds, u \in UserRefs}

JoinBodies ==
  {[NoData EXCEPT !.has = {"activity_id"}, !.activity_id = a] : a \in ActivityRefs}

\* logical timestamps CURRENT_TIMESTAMP may return
MaxClock == 2

\* The sequences and the clock stay within the bounds of the model.
WithinBounds(d) ==
  /\ d.seq.questions <= MaxQuestions + 1
  /\ d.seq.activities <= MaxActivities + 1
  /\ d.seq.users <= MaxUsers + 1
  /\ d.seq.answers <= MaxAnswers + 1
  /\ d.clock <= MaxClock + 1

(***************************************************************************)
(* Requests served one at a time.                                          *)
(***************************************************************************)
\* What get_statistics returns: nothing when no time is recorded (empty), the
\* times it reads off the sorted list, or an IndexError (raised).
NoStats ==
  [empty |-> TRUE, raised |-> FALSE, min |-> 0, max |-> 0, median |-> 0,
   p95 |-> 0, p99 |-> 0]

\* run_load_test has not been called: no future, an empty LoadTestResult.
LtIdle ==
  [pc |-> "idle", num_requests |-> 0, concurrency |-> 0, futures |-> <<>>,
   collected |-> {}, stats |-> NoStats,
   result |-> [total_requests |-> 0, successful_requests |-> 0,
               failed_requests |-> 0, response_times |-> <<>>,
               error_messages |-> <<>>]]

\* the Socket.IO events the test clients send and receive
EventNames == {"connect", "connected", "join_activity", "joined_activity"}

\* defaultdict(int): every event name counts 0
NoEvents == [e \in EventNames |-> 0]

\* run_socket_load_test has not been called: no client, an empty SocketTestResult.
SockIdle ==
  [pc |-> "idle", num_clients |-> 0, concurrency |-> 0, clients |-> <<>>,
   collected |-> {}, stats |-> NoStats,
   result |-> [total_clients |-> 0, connected_clients |-> 0,
               failed_connections |-> 0, disconnected_clients |-> 0,
               connection_times |-> <<>>,
               events_sent |-> NoEvents, events_received |-> NoEvents,
               events_failed |-> NoEvents, client_states |-> <<>>]]

\* Socket.IO clients (admin, participant and display pages)
MaxSids == 3

WsClients == 1..MaxSids

\* a message as a client sends it; keys the data lacks keep placeholder values
NoMessage ==
  [event |-> "", sid |-> 0, has |-> {}, activity_id |-> 0, time_remaining |-> 0,
   answer |-> ""]

\* The Socket.IO server as it starts: no client is connected, no client has
\* received an event, no message was handled.
WsIdle ==
  [connected |-> {}, inbox |-> [c \in WsClients |-> <<>>], handled |-> 0,
   last |-> NoMessage]

Init ==
  /\ db = EmptyDb /\ reqs = [s \in Slots |-> IdleReq] /\ lt = LtIdle
  /\ sock = SockIdle /\ ws = WsIdle

\* A request served in slot 1 from its first statement to its response:
\* the database and the request as it ends.
Served(r) == Run(db, r)

CreateQuestion ==
  \E data \in QuestionBodies :
    LET s == Served(NewReq("create_question", 0, data, "insert"))
    IN  /\ WithinBounds(s.db)
        /\ db' = s.db
        /\ reqs' = [reqs EXCEPT ![1] = s.r]
        /\ UNCHANGED <<lt, sock, ws>>

UpdateQuestion ==
  \E id \in QuestionIds, data \in QuestionBodies :
    LET s == Served(NewReq("update_question", id, data, "update"))
    IN  /\ WithinBounds(s.db)
        /\ db' = s.db
        /\ reqs' = [reqs EXCEPT ![1] = s.r]
        /\ UNCHANGED <<lt, sock, ws>>

DeleteQuestion ==
  \E id \in QuestionIds :
    LET s == Served(NewReq("delete_question", id, NoData, "delete"))
    IN  /\ WithinBounds(s.db)
        /\ db' = s.db
        /\ reqs' = [reqs EXCEPT ![1] = s.r]
        /\ UNCHANGED <<lt, sock, ws>>

CreateActivity ==
  \E data \in CreateActivityBodies :
    LET s == Served(NewReq("create_activity", 0, data, "insert"))
    IN  /\ WithinBounds(s.db)
        /\ db' = s.db
        /\ reqs' = [reqs EXCEPT ![1] = s.r]
        /\ UNCHANGED <<lt, sock, ws>>

UpdateActivity ==
  \E id \in ActivityIds, data \in LiveActivityBodies :
    LET s == Served(NewReq("update_activity", id, data, "update"))
    IN  /\ WithinBounds(s.db)
        /\ db' = s.db
        /\ reqs' = [reqs EXCEPT ![1] = s.r]
        /\ UNCHANGED <<lt, sock, ws>>

JoinActivity ==
  \E data \in JoinBodies :
    LET s == Served(NewReq("join_activity", 0, data, "insert"))
    IN  /\ WithinBounds(s.db)
        /\ db' = s.db
        /\ reqs' = [reqs EXCEPT ![1] = s.r]
        /\ UNCHANGED <<lt, sock, ws>>

SubmitAnswer ==
  \E data \in SubmitAnswerBodies :
    LET s == Served(NewReq("submit_answer", 0, data, "select_limit"))
    IN  /\ WithinBounds(s.db)
        /\ db' = s.db
        /\ reqs' = [reqs EXCEPT ![1] = s.r]
        /\ UNCHANGED <<lt, sock, ws>>

\* Spec: every write handler, with the activity updates of a live session.
Next ==
  \/ CreateQuestion
  \/ UpdateQuestion
  \/ DeleteQuestion
  \/ CreateActivity
  \/ UpdateActivity
  \/ JoinActivity
  \/ SubmitAnswer

Spec == Init /\ [][Next]_vars

\* SpecAdmin: the admin page alone, with every body of create_activity and
\* update_activity.
AdminCreateActivity ==
  \E data \in CreateActivityBodies :
    LET s == Served(NewReq("create_activity", 0, data, "insert"))
    IN  /\ WithinBounds(s.db)
        /\ db' = s.db
        /\ reqs' = [reqs EXCEPT ![1] = s.r]
        /\ UNCHANGED <<lt, sock, ws>>

AdminUpdateActivity ==
  \E id \in ActivityIds, data \in UpdateActivityBodies :
    LET s == Served(NewReq("update_activity", id, data, "update"))
    IN  /\ WithinBounds(s.db)
        /\ db' = s.db
        /\ reqs' = [reqs EXCEPT ![1] = s.r]
        /\ UNCHANGED <<lt, sock, ws>>

NextAdmin ==
  \/ AdminCreateActivity
  \/ AdminUpdateActivity

SpecAdmin == Init /\ [][NextAdmin]_vars

(***************************************************************************)
(* SpecGroups: the groups of an activity.  Activities are created and      *)
(* updated with every combination of groups_count and groups, and read by  *)
(* get_activity and get_activity_groups.                                   *)
(***************************************************************************)
\* A body with groups_count and groups: each argument is <<>> (the key is
\* absent) or <<value>>.
GroupsBody(gc, g) ==
  [NoData EXCEPT
     !.has = (IF gc # <<>> THEN {"groups_count"} ELSE {})
             \cup (IF g # <<>> THEN {"groups"} ELSE {}),
     !.groups_count = IF gc # <<>> THEN gc[1] ELSE None,
     !.groups = IF g # <<>> THEN g[1] ELSE <<>>]

GroupsBodies ==
  {GroupsBody(gc, g) :
     gc \in {<<>>, <<Some(0)>>, <<Some(2)>>, <<Some(3)>>, <<Some(-1)>>},
     g \in {<<>>, << <<>> >>, << <<"A">> >>, << <<"A", "B">> >>}}

GroupsCreateActivity ==
  \E data \in GroupsBodies :
    LET s == Served(NewReq("create_activity", 0, data, "insert"))
    IN  /\ WithinBounds(s.db)
        /\ db' = s.db
        /\ reqs' = [reqs EXCEPT ![1] = s.r]
        /\ UNCHANGED <<lt, sock, ws>>

GroupsUpdateActivity ==
  \E id \in ActivityIds, data \in GroupsBodies :
    LET s == Served(NewReq("update_activity", id, data, "update"))
    IN  /\ WithinBounds(s.db)
        /\ db' = s.db
        /\ reqs' = [reqs EXCEPT ![1] = s.r]
        /\ UNCHANGED <<lt, sock, ws>>

ReadActivity ==
  \E id \in ActivityRefs :
    LET s == Served(NewReq("get_activity", id, NoData, "select"))
    IN  /\ db' = s.db
        /\ reqs' = [reqs EXCEPT ![1] = s.r]
        /\ UNCHANGED <<lt, sock, ws>>

ReadActivityGroups ==
  \E id \in ActivityRefs :
    LET s == Served(NewReq("get_activity_groups", id, NoData, "select"))
    IN  /\ db' = s.db
        /\ reqs' = [reqs EXCEPT ![1] = s.r]
        /\ UNCHANGED <<lt, sock, ws>>

NextGroups ==
  \/ GroupsCreateActivity
  \/ GroupsUpdateActivity
  \/ ReadActivity
  \/ ReadActivityGroups

SpecGroups == Init /\ [][NextGroups]_vars

(***************************************************************************)
(* SpecRefs: the rows of users and answers and the rows they refer to.     *)
(* Bodies name an existing id, an id no row has, or null.                  *)
(***************************************************************************)
RefsJoinBodies ==
  {[NoData EXCEPT !.has = {"activity_id"}, !.activity_id = a] :
     a \in ActivityRefs \cup {NullId}}

RefsSubmitAnswerBodies ==
  {[NoData EXCEPT !.has = {"activity_id", "question_id", "user_id"},
                  !.activity_id = a, !.question_id = q, !.user_id = u] :
     a \in ActivityRefs \cup {NullId}, q \in QuestionIds \cup {NullId},
     u \in UserRefs \cup {NullId}}

RefsCreateQuestion ==
  LET s == Served(NewReq("create_question", 0, NoData, "insert"))
  IN  /\ WithinBounds(s.db)
      /\ db' = s.db
      /\ reqs' = [reqs EXCEPT ![1] = s.r]
      /\ UNCHANGED <<lt, sock, ws>>

RefsDeleteQuestion ==
  \E id \in QuestionIds :
    LET s == Served(NewReq("delete_question", id, NoData, "delete"))
    IN  /\ WithinBounds(s.db)
        /\ db' = s.db
        /\ reqs' = [reqs EXCEPT ![1] = s.r]
        /\ UNCHANGED <<lt, sock, ws>>

RefsCreateActivity ==
  LET s == Served(NewReq("create_activity", 0, NoData, "insert"))
  IN  /\ WithinBounds(s.db)
      /\ db' = s.db
      /\ reqs' = [reqs EXCEPT ![1] = s.r]
      /\ UNCHANGED <<lt, sock, ws>>

RefsJoinActivity ==
  \E data \in RefsJoinBodies :
    LET s == Served(NewReq("join_activity", 0, data, "insert"))
    IN  /\ WithinBounds(s.db)
        /\ db' = s.db
        /\ reqs' = [reqs EXCEPT ![1] = s.r]
        /\ UNCHANGED <<lt, sock, ws>>

RefsSubmitAnswer ==
  \E data \in RefsSubmitAnswerBodies :
    LET s == Served(NewReq("submit_answer", 0, data, "select_limit"))
    IN  /\ WithinBounds(s.db)
        /\ db' = s.db
        /\ reqs' = [reqs EXCEPT ![1] = s.r]
        /\ UNCHANGED <<lt, sock, ws>>

NextRefs ==
  \/ RefsCreateQuestion
  \/ RefsDeleteQuestion
  \/ RefsCreateActivity
  \/ RefsJoinActivity
  \/ RefsSubmitAnswer

SpecRefs == Init /\ [][NextRefs]_vars

(***************************************************************************)
(* SpecActivityStats: the statistics page.  Users join one of two          *)
(* activities, answer the question, and get_activity_stats is read.        *)
(***************************************************************************)
\* rows ever inserted into activities while the statistics are read
MaxStatsActivities == 2

StatsActivityIds == 1..MaxStatsActivities

\* The sequences stay within the bounds of the model.
StatsWithinBounds(d) ==
  /\ d.seq.questions <= MaxQuestions + 1
  /\ d.seq.activities <= MaxStatsActivities + 1
  /\ d.seq.users <= MaxUsers + 1
  /\ d.seq.answers <= MaxAnswers + 1
  /\ d.clock <= MaxClock + 1

\* join_activity bodies: an activity, with or without a group_name
StatsJoinBodies ==
  {[NoData EXCEPT !.has = {"activity_id"}, !.activity_id = a] : a \in StatsActivityIds}
  \cup {[NoData EXCEPT !.has = {"activity_id", "group_name"}, !.activity_id = a,
                       !.group_name = Some("A")] : a \in StatsActivityIds}

StatsSubmitAnswerBodies ==
  {[NoData EXCEPT !.has = {"activity_id", "question_id", "user_id"},
                  !.activity_id = a, !.question_id = q, !.user_id = u] :
     a \in StatsActivityIds, q \in QuestionIds, u \in 1..MaxUsers}

StatsCreateQuestion ==
  LET s == Served(NewReq("create_question", 0, NoData, "insert"))
  IN  /\ StatsWithinBounds(s.db)
      /\ db' = s.db
      /\ reqs' = [reqs EXCEPT ![1] = s.r]
      /\ UNCHANGED <<lt, sock, ws>>

StatsCreateActivity ==
  LET s == Served(NewReq("create_activity", 0, NoData, "insert"))
  IN  /\ StatsWithinBounds(s.db)
      /\ db' = s.db
      /\ reqs' = [reqs EXCEPT ![1] = s.r]
      /\ UNCHANGED <<lt, sock, ws>>

\* update_activity with current_question_id alone: the question is shown
StatsShowQuestion ==
  \E id \in StatsActivityIds, q \in QuestionIds :
    LET s == Served(NewReq("update_activity", id,
                           ActivityBody(<<>>, <<Some(q)>>, <<>>, <<>>, <<>>), "update"))
    IN  /\ StatsWithinBounds(s.db)
        /\ db' = s.db
        /\ reqs' = [reqs EXCEPT ![1] = s.r]
        /\ UNCHANGED <<lt, sock, ws>>

StatsJoinActivity ==
  \E data \in StatsJoinBodies :
    LET s == Served(NewReq("join_activity", 0, data, "insert"))
    IN  /\ StatsWithinBounds(s.db)
        /\ db' = s.db
        /\ reqs' = [reqs EXCEPT ![1] = s.r]
        /\ UNCHANGED <<lt, sock, ws>>

StatsSubmitAnswer ==
  \E data \in StatsSubmitAnswerBodies :
    LET s == Served(NewReq("submit_answer", 0, data, "select_limit"))
    IN  /\ StatsWithinBounds(s.db)
        /\ db' = s.db
        /\ reqs' = [reqs EXCEPT ![1] = s.r]
        /\ UNCHANGED <<lt, sock, ws>>

ReadActivityStats ==
  \E id \in StatsActivityIds :
    LET s == Served(NewReq("get_activity_stats", id, NoData, "select"))
    IN  /\ db' = s.db
        /\ reqs' = [reqs EXCEPT ![1] = s.r]
        /\ UNCHANGED <<lt, sock, ws>>

NextActivityStats ==
  \/ StatsCreateQuestion
  \/ StatsCreateActivity
  \/ StatsShowQuestion
  \/ StatsJoinActivity
  \/ StatsSubmitAnswer
  \/ ReadActivityStats

SpecActivityStats == Init /\ [][NextActivityStats]_vars

(***************************************************************************)
(* SpecConc: two requests in flight.  The server runs each request on its  *)
(* own connection; a request takes one step of its handler at a time and   *)
(* the other request may run between any two of its steps.                 *)
(***************************************************************************)
ConcRequests ==
  {NewReq("create_activity", 0, NoData, "insert"),
   NewReq("create_question", 0,
          [NoData EXCEPT !.has = {"answer_limit"}, !.answer_limit = Some(1)], "insert"),
   NewReq("create_question", 0,
          [NoData EXCEPT !.has = {"answer_limit"}, !.answer_limit = Some(2)], "insert"),
   NewReq("update_question", 1,
          [NoData EXCEPT !.has = {"answer_limit"}, !.answer_limit = Some(1)], "update"),
   NewReq("delete_question", 1, NoData, "delete"),
   NewReq("update_activity", 1,
          ActivityBody(<<>>, <<>>, <<"stats">>, <<>>, <<>>), "update"),
   NewReq("join_activity", 0,
          [NoData EXCEPT !.has = {"activity_id"}, !.activity_id = 1], "insert"),
   NewReq("submit_answer", 0,
          [NoData EXCEPT !.has = {"activity_id", "question_id", "user_id"},
                         !.activity_id = 1, !.question_id = 1, !.user_id = 1],
          "select_limit")}

\* A request arrives on a free connection.
Begin(s) ==
  /\ reqs[s].pc \in {"idle", "done"}
  /\ \E r \in ConcRequests : reqs' = [reqs EXCEPT ![s] = r]
  /\ UNCHANGED <<db, lt, sock, ws>>

\* The request in slot s runs the next step of its handler.
StepReq(s) ==
  /\ reqs[s].pc \notin {"idle", "done"}
  /\ LET t == Step(db, reqs[s])
     IN  /\ WithinBounds(t.db)
         /\ db' = t.db
         /\ reqs' = [reqs EXCEPT ![s] = t.r]
  /\ UNCHANGED <<lt, sock, ws>>

NextConc == \E s \in Slots : Begin(s) \/ StepReq(s)

SpecConc == Init /\ [][NextConc]_vars

(***************************************************************************)
(* SpecLoad: run_load_test of load_test.py.  The main thread submits       *)
(* num_requests calls of send_register_request to a pool of concurrency    *)
(* worker threads and collects the futures as they complete.               *)
(***************************************************************************)
\* num_requests of a call
MaxRequests == 3
\* concurrency of a call
MaxWorkers == 2

\* What requests.post does: a response with a status code, or an exception.
Replies ==
  {[exc |-> "", status |-> 201],
   [exc |-> "", status |-> 200],
   [exc |-> "", status |-> 500],
   [exc |-> "Timeout", status |-> 0],
   [exc |-> "ConnectionError", status |-> 0]}

\* time.time() - start_time, in ticks
ResponseTimes == {1, 2}

\* if response.status_code == 201
IsSuccessAny2xx(reply) == reply.exc = "" /\ reply.status \in 200..299

IsSuccess(reply) == reply.exc = "" /\ reply.status = 201

\* The tuple send_register_request returns: every exception is caught.
SendRegisterRequest(reply, rt) ==
  [success |-> IsSuccess(reply),
   response_time |-> rt,
   error_msg |-> IF IsSuccess(reply) THEN ""
                 ELSE IF reply.exc = "" THEN "HTTP error"
                 ELSE reply.exc]

\* LoadTestResult.add_result; an empty error_msg is not recorded
AddResult(res, success, response_time, error_msg) ==
  [total_requests |-> res.total_requests + 1,
   response_times |-> Append(res.response_times, response_time),
   successful_requests |-> res.successful_requests + (IF success THEN 1 ELSE 0),
   failed_requests |-> res.failed_requests + (IF success THEN 0 ELSE 1),
   error_messages |-> IF ~success /\ error_msg # ""
                      THEN Append(res.error_messages, error_msg)
                      ELSE res.error_messages]

\* ThreadPoolExecutor(max_workers): a queued call starts only while fewer than
\* max_workers calls run.
PoolUnbounded(running, max_workers) == TRUE

PoolHasFreeWorker(running, max_workers) == running < max_workers

\* the futures in state state
FuturesIn(state) == {t \in 1..Len(lt.futures) : lt.futures[t].state = state}

\* run_load_test(base_url, activity_id, num_requests, concurrency) is called.
RunLoadTest ==
  /\ lt.pc = "idle"
  /\ \E n \in 0..MaxRequests, c \in 1..MaxWorkers :
       lt' = [lt EXCEPT !.pc = IF n = 0 THEN "collect" ELSE "submit",
                        !.num_requests = n, !.concurrency = c]
  /\ UNCHANGED <<db, reqs, sock, ws>>

\* One pass of the for loop: executor.submit(...) queues a call, futures.append.
Submit ==
  /\ lt.pc = "submit"
  /\ lt' = [lt EXCEPT
              !.futures = Append(@, [state |-> "pending", reply |-> [exc |-> "", status |-> 0],
                                     rt |-> 0]),
              !.pc = IF Len(lt.futures) + 1 = lt.num_requests THEN "collect"
                     ELSE "submit"]
  /\ UNCHANGED <<db, reqs, sock, ws>>

\* A worker thread takes the oldest queued call; the pool has at most
\* concurrency threads.
WorkerStart ==
  /\ FuturesIn("pending") # {}
  /\ PoolHasFreeWorker(Cardinality(FuturesIn("running")), lt.concurrency)
  /\ LET t == CHOOSE t \in FuturesIn("pending") :
                \A u \in FuturesIn("pending") : t <= u
     IN  lt' = [lt EXCEPT !.futures[t].state = "running"]
  /\ UNCHANGED <<db, reqs, sock, ws>>

\* send_register_request returns in a worker thread: the server answered, or
\* requests.post raised (at the latest when the request times out).
WorkerFinish ==
  /\ \E t \in FuturesIn("running"), reply \in Replies, rt \in ResponseTimes :
       lt' = [lt EXCEPT !.futures[t] = [state |-> "done", reply |-> reply, rt |-> rt]]
  /\ UNCHANGED <<db, reqs, sock, ws>>

\* One pass of the as_completed loop, in the main thread: a finished future
\* that was not yet yielded, future.result() and result.add_result(...).
Collect ==
  /\ lt.pc = "collect"
  /\ \E t \in FuturesIn("done") \ lt.collected :
       LET out == SendRegisterRequest(lt.futures[t].reply, lt.futures[t].rt)
       IN  lt' = [lt EXCEPT
                    !.collected = @ \cup {t},
                    !.result = AddResult(@, out.success, out.response_time,
                                         out.error_msg)]
  /\ UNCHANGED <<db, reqs, sock, ws>>

\* as_completed has yielded every future: the executor shuts down, end_time is
\* taken and run_load_test returns result.
Return ==
  /\ lt.pc = "collect"
  /\ lt.collected = 1..Len(lt.futures)
  /\ lt' = [lt EXCEPT !.pc = "returned"]
  /\ UNCHANGED <<db, reqs, sock, ws>>

NextLoad ==
  \/ RunLoadTest
  \/ Submit
  \/ WorkerStart
  \/ WorkerFinish
  \/ Collect
  \/ Return

\* The threads are scheduled and every request ends, by a response or by an
\* exception of requests.post: a step that can be taken is taken.
SpecLoad == Init /\ [][NextLoad]_vars /\ WF_vars(NextLoad)

(***************************************************************************)
(* SpecSocket: run_socket_load_test of socket_load_test.py.  The main      *)
(* thread creates num_clients clients and submits one run_client_test per  *)
(* client to a pool of concurrency worker threads.  The worker threads     *)
(* share one SocketTestResult; a counter increment (x += 1) is a read and  *)
(* a write, and another thread may run between the two.                    *)
(***************************************************************************)
\* num_clients of a call
MaxClients == 3
\* concurrency of a call
MaxSocketWorkers == 2

\* SocketClient(...): a client that is created and not yet submitted.  pc, tmp,
\* ok and emits belong to its run_client_test; link is the Socket.IO connection,
\* inbox the packets on their way to the client, and rpc, rev, rtmp belong to
\* the thread of the Socket.IO library that runs the client's event handlers.
NewClient ==
  [pc |-> "created", success |-> FALSE, connected |-> FALSE, tmp |-> 0,
   link |-> FALSE, inbox |-> <<>>, rpc |-> "idle", rev |-> "", rtmp |-> 0,
   emits |-> 0, ok |-> FALSE]

\* result.client_states has no entry for the client
NoClientState ==
  [present |-> FALSE, connected |-> FALSE, events_sent |-> 0, events_received |-> 0]

\* the clients whose run_client_test is at pc
ClientsAt(pcs) == {c \in 1..Len(sock.clients) : sock.clients[c].pc \in pcs}

\* the steps of run_client_test, from the worker picking it up to its return
SessionPcs ==
  {"connect", "wait_connected", "total_read", "total_write", "outcome_read",
   "outcome_write", "session", "sent_read", "sent_write", "failed_read",
   "failed_write", "disconnected_write"}

\* run_socket_load_test(server_url, num_clients, concurrency, ...) is called:
\* the clients list is built.
RunSocketLoadTest ==
  /\ sock.pc = "idle"
  /\ \E n \in 0..MaxClients, c \in 1..MaxSocketWorkers :
       sock' = [sock EXCEPT !.pc = IF n = 0 THEN "collect" ELSE "submit",
                        !.num_clients = n, !.concurrency = c,
                        !.clients = [i \in 1..n |-> NewClient],
                        !.result.client_states = [i \in 1..n |-> NoClientState]]
  /\ UNCHANGED <<db, reqs, lt, ws>>

\* One pass of the for loop: executor.submit(run_client_test, client, ...).
SocketSubmit ==
  /\ sock.pc = "submit"
  /\ LET c == CHOOSE c \in ClientsAt({"created"}) :
                \A u \in ClientsAt({"created"}) : c <= u
     IN  sock' = [sock EXCEPT
                  !.clients[c].pc = "pending",
                  !.pc = IF c = sock.num_clients THEN "collect" ELSE "submit"]
  /\ UNCHANGED <<db, reqs, lt, ws>>

\* A worker thread takes the oldest queued run_client_test; the pool has at
\* most concurrency threads.
ClientStart ==
  /\ ClientsAt({"pending"}) # {}
  /\ PoolHasFreeWorker(Cardinality(ClientsAt(SessionPcs)), sock.concurrency)
  /\ LET c == CHOOSE c \in ClientsAt({"pending"}) :
                \A u \in ClientsAt({"pending"}) : c <= u
     IN  sock' = [sock EXCEPT !.clients[c].pc = "connect"]
  /\ UNCHANGED <<db, reqs, lt, ws>>

\* client.connect() returns (True, ...) or, when sio.connect raised, (False, ...).
ClientConnect ==
  /\ \E c \in ClientsAt({"connect"}), success \in BOOLEAN :
       sock' = [sock EXCEPT !.clients[c].success = success,
                        !.clients[c].connected = success,
                        !.clients[c].pc = "total_read"]
  /\ UNCHANGED <<db, reqs, lt, ws>>

\* add_connection, self.total_clients += 1: the read
AddConnectionReadTotal ==
  /\ \E c \in ClientsAt({"total_read"}) :
       sock' = [sock EXCEPT !.clients[c].tmp = sock.result.total_clients,
                        !.clients[c].pc = "total_write"]
  /\ UNCHANGED <<db, reqs, lt, ws>>

\* add_connection, self.total_clients += 1: the write, and
\* self.connection_times.append(connection_time), one tick per connection
AddConnectionWriteTotal ==
  /\ \E c \in ClientsAt({"total_write"}) :
       sock' = [sock EXCEPT !.result.total_clients = sock.clients[c].tmp + 1,
                        !.result.connection_times = Append(@, 1),
                        !.clients[c].tmp = 0,
                        !.clients[c].pc = "outcome_read"]
  /\ UNCHANGED <<db, reqs, lt, ws>>

\* add_connection, self.connected_clients += 1 or self.failed_connections += 1:
\* the read
AddConnectionReadOutcome ==
  /\ \E c \in ClientsAt({"outcome_read"}) :
       sock' = [sock EXCEPT
                !.clients[c].tmp = IF sock.clients[c].success
                                   THEN sock.result.connected_clients
                                   ELSE sock.result.failed_connections,
                !.clients[c].pc = "outcome_write"]
  /\ UNCHANGED <<db, reqs, lt, ws>>

\* the write; run_client_test returns False when the connection failed
AddConnectionWriteOutcome ==
  /\ \E c \in ClientsAt({"outcome_write"}) :
       sock' = IF sock.clients[c].success
             THEN [sock EXCEPT !.result.connected_clients = sock.clients[c].tmp + 1,
                             !.result.client_states[c] =
                               IF @.present THEN @
                               ELSE [NoClientState EXCEPT !.present = TRUE,
                                                          !.connected = TRUE],
                             !.clients[c].tmp = 0,
                             !.clients[c].pc = "session"]
             ELSE [sock EXCEPT !.result.failed_connections = sock.clients[c].tmp + 1,
                             !.clients[c].tmp = 0,
                             !.clients[c].pc = "done"]
  /\ UNCHANGED <<db, reqs, lt, ws>>

\* The events are sent, then client.disconnect(): when the client is connected
\* sio.disconnect() runs the 'disconnect' handler, add_disconnection reads
\* disconnected_clients; a client that is not connected returns at once.
ClientDisconnect ==
  /\ \E c \in ClientsAt({"session"}) :
       sock' = IF sock.clients[c].connected
               THEN [sock EXCEPT !.clients[c].connected = FALSE,
                                 !.clients[c].link = FALSE,
                                 !.clients[c].inbox = <<>>,
                                 !.clients[c].tmp = sock.result.disconnected_clients,
                                 !.clients[c].pc = "disconnected_write"]
               ELSE [sock EXCEPT !.clients[c].pc = "done"]
  /\ UNCHANGED <<db, reqs, lt, ws>>

\* add_disconnection writes disconnected_clients and marks the client's entry
\* of client_states; run_client_test returns True.
AddDisconnectionWrite ==
  /\ \E c \in ClientsAt({"disconnected_write"}) :
       sock' = [sock EXCEPT !.result.disconnected_clients = sock.clients[c].tmp + 1,
                        !.result.client_states[c].connected = FALSE,
                        !.clients[c].tmp = 0,
                        !.clients[c].pc = "done"]
  /\ UNCHANGED <<db, reqs, lt, ws>>

\* One pass of the as_completed loop: a finished future, future.result().
SocketCollect ==
  /\ sock.pc = "collect"
  /\ \E c \in ClientsAt({"done"}) \ sock.collected :
       sock' = [sock EXCEPT !.collected = @ \cup {c}]
  /\ UNCHANGED <<db, reqs, lt, ws>>

\* Every future was yielded: end_time is taken and the result is returned.
SocketReturn ==
  /\ sock.pc = "collect"
  /\ sock.collected = 1..Len(sock.clients)
  /\ sock' = [sock EXCEPT !.pc = "returned"]
  /\ UNCHANGED <<db, reqs, lt, ws>>

NextSocket ==
  \/ RunSocketLoadTest
  \/ SocketSubmit
  \/ ClientStart
  \/ ClientConnect
  \/ AddConnectionReadTotal
  \/ AddConnectionWriteTotal
  \/ AddConnectionReadOutcome
  \/ AddConnectionWriteOutcome
  \/ ClientDisconnect
  \/ AddDisconnectionWrite
  \/ SocketCollect
  \/ SocketReturn

SpecSocket == Init /\ [][NextSocket]_vars

(***************************************************************************)
(* SpecEvents: the events of a socket load test.  Each client has the      *)
(* worker thread that runs its run_client_test and the thread of the       *)
(* Socket.IO library that runs its event handlers; all of them share the   *)
(* one SocketTestResult.                                                   *)
(***************************************************************************)
\* num_clients and concurrency of the test
MaxEventClients == 2
\* emit_event calls of one client
MaxEmits == 1

\* run_socket_load_test has submitted one run_client_test per client.
InitEvents ==
  /\ db = EmptyDb /\ reqs = [s \in Slots |-> IdleReq] /\ lt = LtIdle /\ ws = WsIdle
  /\ sock = [SockIdle EXCEPT
               !.pc = "collect", !.num_clients = MaxEventClients,
               !.concurrency = MaxEventClients,
               !.clients = [i \in 1..MaxEventClients |->
                              [NewClient EXCEPT !.pc = "pending"]],
               !.result.client_states = [i \in 1..MaxEventClients |-> NoClientState]]

\* client.connect(): sio.connect(server_url) raises, or the connection is made:
\* the server's CONNECT packet and the 'connected' event of handle_connect are
\* on their way to the client.
EvConnect ==
  /\ \E c \in ClientsAt({"connect"}), up \in BOOLEAN :
       sock' = IF up
               THEN [sock EXCEPT !.clients[c].link = TRUE,
                                 !.clients[c].inbox = <<"connect", "connected">>,
                                 !.clients[c].pc = "wait_connected"]
               ELSE [sock EXCEPT !.clients[c].success = FALSE,
                                 !.clients[c].pc = "total_read"]
  /\ UNCHANGED <<db, reqs, lt, ws>>

\* while not self.connected and elapsed < connection_timeout: the loop ends
\* when the 'connect' handler has set the flag, or on the timeout while it is
\* not set; connect() returns (self.connected, ...).
EvWaitConnected ==
  /\ \E c \in ClientsAt({"wait_connected"}) :
       sock' = [sock EXCEPT !.clients[c].success = sock.clients[c].connected,
                            !.clients[c].pc = "total_read"]
  /\ UNCHANGED <<db, reqs, lt, ws>>

\* the inboxes after the server has handled join_activity of a client:
\* 'joined_activity' goes to every client with a connection
Broadcast(clients, name) ==
  [i \in DOMAIN clients |->
     IF clients[i].link THEN [clients[i] EXCEPT !.inbox = Append(@, name)]
     ELSE clients[i]]

\* client.emit_event('join_activity', ...): a client that is not connected
\* returns (False, 0); else sio.emit(...) is done or raises, and
\* add_event_sent follows.  run_client_test does not look at what emit_event
\* returns.
EvEmitEvent ==
  /\ \E c \in ClientsAt({"session"}), ok \in BOOLEAN :
       /\ sock.clients[c].emits < MaxEmits
       /\ sock' = IF ~sock.clients[c].connected
                  THEN [sock EXCEPT !.clients[c].emits = @ + 1]
                  ELSE [sock EXCEPT
                          !.clients = [(IF ok /\ sock.clients[c].link
                                        THEN Broadcast(sock.clients, "joined_activity")
                                        ELSE sock.clients)
                                       EXCEPT ![c].emits = @ + 1, ![c].ok = ok,
                                              ![c].pc = "sent_read"]]
  /\ UNCHANGED <<db, reqs, lt, ws>>

\* add_event_sent, self.events_sent[event_name] += 1: the read
AddEventSentRead ==
  /\ \E c \in ClientsAt({"sent_read"}) :
       sock' = [sock EXCEPT !.clients[c].tmp = sock.result.events_sent["join_activity"],
                            !.clients[c].pc = "sent_write"]
  /\ UNCHANGED <<db, reqs, lt, ws>>

\* the write, and the client's own events_sent when client_states has its entry
AddEventSentWrite ==
  /\ \E c \in ClientsAt({"sent_write"}) :
       sock' = [sock EXCEPT
                  !.result.events_sent["join_activity"] = sock.clients[c].tmp + 1,
                  !.result.client_states[c].events_sent =
                    IF sock.result.client_states[c].present THEN @ + 1 ELSE @,
                  !.clients[c].tmp = 0,
                  !.clients[c].pc = IF sock.clients[c].ok THEN "session"
                                    ELSE "failed_read"]
  /\ UNCHANGED <<db, reqs, lt, ws>>

\* if not success: self.events_failed[event_name] += 1: the read
AddEventFailedRead ==
  /\ \E c \in ClientsAt({"failed_read"}) :
       sock' = [sock EXCEPT !.clients[c].tmp = sock.result.events_failed["join_activity"],
                            !.clients[c].pc = "failed_write"]
  /\ UNCHANGED <<db, reqs, lt, ws>>

\* the write; emit_event returns (False, response_time)
AddEventFailedWrite ==
  /\ \E c \in ClientsAt({"failed_write"}) :
       sock' = [sock EXCEPT
                  !.result.events_failed["join_activity"] = sock.clients[c].tmp + 1,
                  !.clients[c].tmp = 0, !.clients[c].ok = FALSE,
                  !.clients[c].pc = "session"]
  /\ UNCHANGED <<db, reqs, lt, ws>>

\* The library's thread takes the next packet and runs its handler: on_connect
\* sets self.connected; every handler calls add_event_received, which reads
\* self.events_received[event_name].
HandleEvent ==
  /\ \E c \in 1..Len(sock.clients) :
       /\ sock.clients[c].link /\ sock.clients[c].rpc = "idle"
       /\ sock.clients[c].inbox # <<>>
       /\ LET e == Head(sock.clients[c].inbox) IN
          sock' = [sock EXCEPT
                     !.clients[c].inbox = Tail(@),
                     !.clients[c].connected = IF e = "connect" THEN TRUE ELSE @,
                     !.clients[c].rev = e,
                     !.clients[c].rtmp = sock.result.events_received[e],
                     !.clients[c].rpc = "received_write"]
  /\ UNCHANGED <<db, reqs, lt, ws>>

\* add_event_received, self.events_received[event_name] += 1: the write, and
\* the client's own events_received when client_states has its entry
AddEventReceivedWrite ==
  /\ \E c \in 1..Len(sock.clients) :
       /\ sock.clients[c].rpc = "received_write"
       /\ sock' = [sock EXCEPT
                     !.result.events_received[sock.clients[c].rev] =
                       sock.clients[c].rtmp + 1,
                     !.result.client_states[c].events_received =
                       IF sock.result.client_states[c].present THEN @ + 1 ELSE @,
                     !.clients[c].rev = "", !.clients[c].rtmp = 0,
                     !.clients[c].rpc = "idle"]
  /\ UNCHANGED <<db, reqs, lt, ws>>

\* The server or the network closes the connection: the library's thread runs
\* on_disconnect, which clears self.connected; add_disconnection reads
\* disconnected_clients.
ServerDisconnect ==
  /\ \E c \in 1..Len(sock.clients) :
       /\ sock.clients[c].link /\ sock.clients[c].rpc = "idle"
       /\ sock.clients[c].connected
       /\ sock' = [sock EXCEPT !.clients[c].link = FALSE,
                               !.clients[c].inbox = <<>>,
                               !.clients[c].connected = FALSE,
                               !.clients[c].rtmp = sock.result.disconnected_clients,
                               !.clients[c].rpc = "disconnection_write"]
  /\ UNCHANGED <<db, reqs, lt, ws>>

\* add_disconnection of on_disconnect: the write
HandlerDisconnectionWrite ==
  /\ \E c \in 1..Len(sock.clients) :
       /\ sock.clients[c].rpc = "disconnection_write"
       /\ sock' = [sock EXCEPT
                     !.result.disconnected_clients = sock.clients[c].rtmp + 1,
                     !.result.client_states[c].connected = FALSE,
                     !.clients[c].rtmp = 0,
                     !.clients[c].rpc = "idle"]
  /\ UNCHANGED <<db, reqs, lt, ws>>

\* SpecEvents: clients that send no event of their own (client_type 'admin',
\* or 'user' without an activity): they connect, receive and disconnect.
NextEvents ==
  \/ ClientStart
  \/ EvConnect
  \/ EvWaitConnected
  \/ AddConnectionReadTotal
  \/ AddConnectionWriteTotal
  \/ AddConnectionReadOutcome
  \/ AddConnectionWriteOutcome
  \/ HandleEvent
  \/ AddEventReceivedWrite
  \/ ServerDisconnect
  \/ HandlerDisconnectionWrite
  \/ ClientDisconnect
  \/ AddDisconnectionWrite
  \/ SocketCollect
  \/ SocketReturn

SpecEvents == InitEvents /\ [][NextEvents]_vars

\* Both clients are connected, add_connection has recorded them and their
\* handlers have run for 'connect' (before client_states had their entry) and
\* for 'connected' (after): the loop of run_client_test is about to emit.
EmitStart ==
  [SockIdle EXCEPT
     !.pc = "collect", !.num_clients = MaxEventClients,
     !.concurrency = MaxEventClients,
     !.clients = [i \in 1..MaxEventClients |->
                    [NewClient EXCEPT !.pc = "session", !.success = TRUE,
                                      !.connected = TRUE, !.link = TRUE]],
     !.result = [SockIdle.result EXCEPT
                   !.total_clients = MaxEventClients,
                   !.connected_clients = MaxEventClients,
                   !.connection_times = [i \in 1..MaxEventClients |-> 1],
                   !.events_received = [NoEvents EXCEPT
                                          !["connect"] = MaxEventClients,
                                          !["connected"] = MaxEventClients],
                   !.client_states =
                     [i \in 1..MaxEventClients |->
                        [present |-> TRUE, connected |-> TRUE, events_sent |-> 0,
                         events_received |-> 1]]]]

InitEmit ==
  /\ db = EmptyDb /\ reqs = [s \in Slots |-> IdleReq] /\ lt = LtIdle /\ ws = WsIdle
  /\ sock = EmitStart

\* SpecEmit: connected clients of type 'user' emit, receive and disconnect.
NextEmit ==
  \/ EvEmitEvent
  \/ AddEventSentRead
  \/ AddEventSentWrite
  \/ AddEventFailedRead
  \/ AddEventFailedWrite
  \/ HandleEvent
  \/ AddEventReceivedWrite
  \/ ServerDisconnect
  \/ HandlerDisconnectionWrite
  \/ ClientDisconnect
  \/ AddDisconnectionWrite
  \/ SocketCollect
  \/ SocketReturn

SpecEmit == InitEmit /\ [][NextEmit]_vars

(***************************************************************************)
(* SpecWs: the Socket.IO event handlers of app.py.  ws.connected are the   *)
(* clients connected to the server, ws.inbox[c] the events client c has    *)
(* received, ws.last the message the server handled last.                  *)
(***************************************************************************)
\* messages the server handles in a run
MaxWsEvents == 4

\* emit(..., broadcast, include_self) inside a handler: the clients the event
\* goes to.  Without broadcast it goes to the client whose message is handled.
RecipientsIncludingSelf(connected, sender, broadcast, include_self) ==
  IF broadcast THEN connected ELSE {sender}

Recipients(connected, sender, broadcast, include_self) ==
  IF broadcast
  THEN (IF include_self THEN connected ELSE connected \ {sender})
  ELSE {sender}

\* emit(name, payload, broadcast=..., include_self=...) while handling msg
WsEmit(w, msg, name, payload, broadcast, include_self) ==
  LET to == Recipients(w.connected, msg.sid, broadcast, include_self)
  IN  [w EXCEPT !.inbox = [c \in WsClients |->
                             IF c \in to
                             THEN Append(w.inbox[c], [name |-> name, payload |-> payload])
                             ELSE w.inbox[c]]]

\* data.get(key) of a message
MsgGet(msg, key) == IF key \in msg.has THEN Some(msg[key]) ELSE None

\* the server has taken msg off the wire
Received(w, msg) == [w EXCEPT !.handled = @ + 1, !.last = msg]

\* A client connects: handle_connect answers 'connected' to it.
WsConnect ==
  /\ ws.handled < MaxWsEvents
  /\ \E c \in WsClients \ ws.connected :
       LET msg == [NoMessage EXCEPT !.event = "connect", !.sid = c]
           w   == [Received(ws, msg) EXCEPT !.connected = @ \cup {c}]
       IN  ws' = WsEmit(w, msg, "connected", [status |-> "connected"], FALSE, TRUE)
  /\ UNCHANGED <<db, reqs, lt, sock>>

\* A client goes away: the server forgets it; app.py has no handler for it.
WsDisconnect ==
  /\ ws.handled < MaxWsEvents
  /\ \E c \in ws.connected :
       LET msg == [NoMessage EXCEPT !.event = "disconnect", !.sid = c]
       IN  ws' = [Received(ws, msg) EXCEPT !.connected = @ \ {c}]
  /\ UNCHANGED <<db, reqs, lt, sock>>

\* handle_join_activity: data['activity_id'] raises KeyError when the key is
\* missing and nothing is emitted.
WsJoinActivity ==
  /\ ws.handled < MaxWsEvents
  /\ \E c \in ws.connected, has \in {{}, {"activity_id"}} :
       LET msg == [NoMessage EXCEPT !.event = "join_activity", !.sid = c,
                                    !.has = has, !.activity_id = 1]
           w   == Received(ws, msg)
       IN  ws' = IF "activity_id" \in msg.has
                 THEN WsEmit(w, msg, "joined_activity",
                             [activity_id |-> Some(msg.activity_id)], TRUE, TRUE)
                 ELSE w
  /\ UNCHANGED <<db, reqs, lt, sock>>

\* handle_join_display
WsJoinDisplay ==
  /\ ws.handled < MaxWsEvents
  /\ \E c \in ws.connected :
       LET msg == [NoMessage EXCEPT !.event = "join_display", !.sid = c]
       IN  ws' = WsEmit(Received(ws, msg), msg, "display_joined",
                        [status |-> "connected"], FALSE, TRUE)
  /\ UNCHANGED <<db, reqs, lt, sock>>

\* handle_broadcast_timer
WsBroadcastTimer ==
  /\ ws.handled < MaxWsEvents
  /\ \E c \in ws.connected, has \in {{"activity_id", "time_remaining"}, {"time_remaining"}} :
       LET msg == [NoMessage EXCEPT !.event = "broadcast_timer", !.sid = c,
                                    !.has = has, !.activity_id = 1,
                                    !.time_remaining = 30]
       IN  ws' = WsEmit(Received(ws, msg), msg, "timer_update",
                        [activity_id |-> MsgGet(msg, "activity_id"),
                         time_remaining |-> MsgGet(msg, "time_remaining")],
                        TRUE, FALSE)
  /\ UNCHANGED <<db, reqs, lt, sock>>

\* handle_project_answer
WsProjectAnswer ==
  /\ ws.handled < MaxWsEvents
  /\ \E c \in ws.connected :
       LET msg == [NoMessage EXCEPT !.event = "project_answer", !.sid = c,
                                    !.has = {"activity_id", "answer"},
                                    !.activity_id = 1, !.answer = "an answer"]
       IN  ws' = WsEmit(Received(ws, msg), msg, "answer_display",
                        [activity_id |-> MsgGet(msg, "activity_id"),
                         answer |-> MsgGet(msg, "answer")],
                        TRUE, FALSE)
  /\ UNCHANGED <<db, reqs, lt, sock>>

NextWs ==
  \/ WsConnect
  \/ WsDisconnect
  \/ WsJoinActivity
  \/ WsJoinDisplay
  \/ WsBroadcastTimer
  \/ WsProjectAnswer

SpecWs == Init /\ [][NextWs]_vars

(***************************************************************************)
(* SpecStats: get_statistics of LoadTestResult and of SocketTestResult,    *)
(* called on the result of a finished test.                                *)
(***************************************************************************)
\* recorded times of a test
MaxTimes == 22

\* sorted(times), by insertion
RECURSIVE InsertSorted(_, _)
InsertSorted(x, s) ==
  IF s = <<>> THEN <<x>>
  ELSE IF x <= Head(s) THEN <<x>> \o s
  ELSE <<Head(s)>> \o InsertSorted(x, Tail(s))

RECURSIVE Sorted(_)
Sorted(s) == IF s = <<>> THEN <<>> ELSE InsertSorted(Head(s), Sorted(Tail(s)))

\* min(times), max(times)
ListMin(s) == CHOOSE x \in {s[i] : i \in DOMAIN s} : \A i \in DOMAIN s : x <= s[i]

ListMax(s) == CHOOSE x \in {s[i] : i \in DOMAIN s} : \A i \in DOMAIN s : x >= s[i]

\* int(len(sorted_times) * 0.95): the product is a double, int() truncates it.
\* For every length up to 2,000,000 the double product truncates to the
\* integer floor of n * pct / 100.
PercentileIndexCeil(n, pct) == (n * pct + 99) \div 100

PercentileIndex(n, pct) == (n * pct) \div 100

\* the min / max / median / p95 / p99 entries of a non-empty list of times;
\* sorted_times[i] raises IndexError when i is not less than the length
Percentiles(times) ==
  LET n      == Len(times)
      sorted == Sorted(times)
      median == n \div 2
      p95    == PercentileIndex(n, 95)
      p99    == PercentileIndex(n, 99)
  IN  IF median < n /\ p95 < n /\ p99 < n
      THEN [empty |-> FALSE, raised |-> FALSE,
            min |-> ListMin(times), max |-> ListMax(times),
            median |-> sorted[median + 1], p95 |-> sorted[p95 + 1],
            p99 |-> sorted[p99 + 1]]
      ELSE [NoStats EXCEPT !.empty = FALSE, !.raised = TRUE]

\* LoadTestResult.get_statistics: {} when no time is recorded.
\* SocketTestResult.get_statistics: no 'connection_time' entry then.
GetStatistics(times) == IF times = <<>> THEN NoStats ELSE Percentiles(times)

\* lists of n times: falling, all equal, and a saw of three values
TimeLists ==
  UNION {{[i \in 1..n |-> n + 1 - i], [i \in 1..n |-> 1], [i \in 1..n |-> 1 + (i % 3)]} :
           n \in 0..MaxTimes}

\* run_load_test has returned with the response times `times`, and
\* run_socket_load_test with the connection times `times`.
InitStats ==
  /\ db = EmptyDb /\ reqs = [s \in Slots |-> IdleReq] /\ ws = WsIdle
  /\ \E times \in TimeLists :
       LET n == Len(times) IN
       /\ lt = [LtIdle EXCEPT
                  !.pc = "returned", !.num_requests = n, !.concurrency = 1,
                  !.futures = [i \in 1..n |->
                                 [state |-> "done",
                                  reply |-> [exc |-> "", status |-> 201],
                                  rt |-> times[i]]],
                  !.collected = 1..n,
                  !.result = [total_requests |-> n, successful_requests |-> n,
                              failed_requests |-> 0, response_times |-> times,
                              error_messages |-> <<>>]]
       /\ sock = [SockIdle EXCEPT
                    !.pc = "returned", !.num_clients = n, !.concurrency = 1,
                    !.clients = [i \in 1..n |-> [NewClient EXCEPT !.pc = "done"]],
                    !.collected = 1..n,
                    !.result = [SockIdle.result EXCEPT
                                  !.total_clients = n, !.failed_connections = n,
                                  !.connection_times = times,
                                  !.client_states = [i \in 1..n |-> NoClientState]]]

\* print_statistics(result) of load_test.py: stats = result.get_statistics()
LoadGetStatistics ==
  /\ lt.pc = "returned"
  /\ lt' = [lt EXCEPT !.pc = "printed",
                      !.stats = GetStatistics(lt.result.response_times)]
  /\ UNCHANGED <<db, reqs, sock, ws>>

\* print_statistics(result) of socket_load_test.py
SocketGetStatistics ==
  /\ sock.pc = "returned"
  /\ sock' = [sock EXCEPT !.pc = "printed",
                          !.stats = GetStatistics(sock.result.connection_times)]
  /\ UNCHANGED <<db, reqs, lt, ws>>

NextStats ==
  \/ LoadGetStatistics
  \/ SocketGetStatistics

SpecStats == InitStats /\ [][NextStats]_vars

(***************************************************************************)
(* SpecHarness: one of the two load test programs is run.                  *)
(***************************************************************************)
NextHarness ==
  \/ sock.pc = "idle" /\ NextLoad
  \/ lt.pc = "idle" /\ NextSocket

SpecHarness == Init /\ [][NextHarness]_vars

(***************************************************************************)
(* The claims.                                                             *)
(***************************************************************************)
\* the stored answer_limit of question q is a positive integer
HasLimit(q) ==
  /\ q \in DOMAIN db.questions
  /\ db.questions[q].answer_limit # None
  /\ db.questions[q].answer_limit[1] > 0

\* C1: for every question whose stored answer_limit is a positive integer L and
\* every user, at most L answers of that user to that question are stored, in
\* every reachable state, also when submit_answer requests run concurrently.
C1_AnswersWithinLimit ==
  \A q \in QuestionIds : \A u \in UserRefs :
    HasLimit(q) => CountAnswers(db, q, u) <= db.questions[q].answer_limit[1]

\* The request served last when requests are served one at a time.
Last == reqs[1]

\* positions of the events named n among the events request r emitted
EventsNamed(r, n) == {i \in 1..Len(r.events) : r.events[i].name = n}

\* the event a write handler announces its write with
EventOf(h) ==
  CASE h = "create_question" -> "question_created"
    [] h = "update_question" -> "question_updated"
    [] h = "delete_question" -> "question_deleted"
    [] h = "create_activity" -> "activity_created"
    [] h = "update_activity" -> "activity_updated"
    [] h = "join_activity"   -> "user_joined"
    [] h = "submit_answer"   -> "answer_submitted"

\* A step of Spec that serves a submit_answer request, alone, as reqs'[1].
SubmitAnswerServed == reqs'[1].h = "submit_answer" /\ reqs'[1].pc = "done"

\* The request reqs'[1] was refused for the limit: nothing stored, nothing emitted.
SubmitAnswerRefused ==
  /\ reqs'[1].code = 400
  /\ reqs'[1].error_code = "ANSWER_LIMIT_EXCEEDED"
  /\ db'.answers = db.answers
  /\ reqs'[1].events = <<>>

\* The request reqs'[1] stored exactly one row, answered 201 with its id and
\* emitted exactly one answer_submitted event.
SubmitAnswerAccepted ==
  LET r == reqs'[1] IN
  /\ r.code = 201
  /\ r.new_id \notin DOMAIN db.answers
  /\ DOMAIN db'.answers = DOMAIN db.answers \cup {r.new_id}
  /\ \A a \in DOMAIN db.answers : db'.answers[a] = db.answers[a]
  /\ db'.answers[r.new_id] = [activity_id |-> r.data.activity_id,
                              question_id |-> r.data.question_id,
                              user_id |-> r.data.user_id]
  /\ Len(r.events) = 1
  /\ r.events[1].name = "answer_submitted"

\* what the claim says of a request of an existing user for an existing question
SubmitAnswerOutcome ==
  LET data  == reqs'[1].data
      limit == db.questions[data.question_id].answer_limit
  IN  IF Truthy(limit) /\ CountAnswers(db, data.question_id, data.user_id) >= limit[1]
      THEN SubmitAnswerRefused
      ELSE SubmitAnswerAccepted

C3_EventOncePerWrite ==
  \A s \in Slots :
    LET r == reqs[s] IN
    r.pc = "done" /\ r.committed /\ r.rowcount > 0
      => /\ Cardinality(EventsNamed(r, EventOf(r.h))) = 1
         /\ \A i \in EventsNamed(r, EventOf(r.h)) : r.events[i].to = "all"

\* update_activity committed its UPDATE, emitted activity_updated and then failed
C3_Witness ==
  /\ Last.h = "update_activity" /\ Last.pc = "done" /\ Last.code = 500
  /\ Last.committed /\ Last.rowcount = 1

\* the create handlers, and the table each inserts into
CreatedTable(h) ==
  CASE h = "create_question" -> "questions"
    [] h = "create_activity" -> "activities"
    [] h = "join_activity"   -> "users"
    [] h = "submit_answer"   -> "answers"

CreateHandlers == {"create_question", "create_activity", "join_activity", "submit_answer"}

\* The request in slot s emits its events and returns.
EmitStep(s) == reqs[s].pc = "emit" /\ reqs'[s].pc = "done"

\* Question id was inserted and has since been deleted.
QuestionDeleted(d, id) == id < d.seq.questions /\ id \notin DOMAIN d.questions

\* C4 as stated: when a write handler emits its event the write is committed, so
\* a read that follows the event finds the new question, activity, user or answer.
C4_AsStated ==
  [][\A s \in Slots :
       EmitStep(s) /\ reqs[s].h \in CreateHandlers
         => reqs[s].new_id \in DOMAIN db'[CreatedTable(reqs[s].h)]]_vars

\* C4, amended: when a write handler emits its event the write is committed: a
\* read that follows finds the new activity, user or answer, and finds the new
\* question unless a delete_question request has deleted it since the commit.
C4_EmitAfterCommit ==
  [][\A s \in Slots :
       /\ EmitStep(s)
            => \/ reqs[s].committed
               \/ reqs[s].h = "update_activity" /\ UpdatedColumns(reqs[s].data) = {}
       /\ EmitStep(s) /\ reqs[s].h \in CreateHandlers
            => \/ reqs[s].new_id \in DOMAIN db'[CreatedTable(reqs[s].h)]
               \/ /\ reqs[s].h = "create_question"
                  /\ QuestionDeleted(db', reqs[s].new_id)]_vars

\* create_question has committed and not yet emitted, and the question is gone
C4_Witness ==
  \E s \in Slots :
    /\ reqs[s].h = "create_question" /\ reqs[s].pc = "emit"
    /\ QuestionDeleted(db, reqs[s].new_id)

\* C5: a request that emitted question_updated, question_deleted or
\* activity_updated changed a row: none of these events comes from a request
\* that left every table as it was.
C5_EventsAnnounceChange ==
  \A s \in Slots :
    LET r == reqs[s] IN
    r.pc = "done" /\ r.h \in {"update_question", "delete_question", "update_activity"}
      /\ EventsNamed(r, EventOf(r.h)) # {}
      => r.rowcount > 0

\* C6: the stored status of every activity is 'preparing', 'active' or 'ended'.
C6_StatusInSet ==
  \A a \in DOMAIN db.activities :
    db.activities[a].status \in {"preparing", "active", "ended"}

DisplayModes == {"question", "answer", "stats", "none"}

\* C7: the stored display_mode of every activity is 'question', 'answer', 'stats'
\* or 'none', and so is the display_mode of every display_update event.
C7_DisplayModeInSet ==
  /\ \A a \in DOMAIN db.activities : db.activities[a].display_mode \in DisplayModes
  /\ \A s \in Slots : \A i \in EventsNamed(reqs[s], "display_update") :
       reqs[s].events[i].payload.display_mode \in DisplayModes

C9_ActivateShowsQuestion ==
  \A s \in Slots :
    LET r == reqs[s] IN
    /\ r.pc = "done" /\ r.h = "update_activity"
    /\ {"status", "current_question_id"} \subseteq r.data.has
    /\ r.data.status = "active"
    /\ "display_mode" \notin r.data.has
    /\ r.id \in DOMAIN db.activities
    => /\ r.code = 200
       /\ \E i \in EventsNamed(r, "display_update") :
            /\ r.events[i].payload.activity_id = r.id
            /\ r.events[i].payload.display_mode = db.activities[r.id].display_mode

\* the futures whose request the server answered with 201
Answered201 ==
  {t \in 1..Len(lt.futures) :
     lt.futures[t].reply.exc = "" /\ lt.futures[t].reply.status = 201}

\* C10: run_load_test called with num_requests = N terminates, and when it has
\* returned total_requests = N, successful_requests + failed_requests = N, N
\* response times are recorded, and the successes are the requests the server
\* answered with 201, whatever the order in which the workers finished.
C10_LoadTestCounts ==
  /\ [](lt.pc = "returned" =>
          /\ lt.result.total_requests = lt.num_requests
          /\ lt.result.successful_requests + lt.result.failed_requests
               = lt.num_requests
          /\ Len(lt.result.response_times) = lt.num_requests
          /\ lt.result.successful_requests = Cardinality(Answered201))
  /\ (lt.pc # "idle" ~> lt.pc = "returned")

\* a run of three requests has returned: one was answered 201, one 200 and one
\* timed out, so one success and two failures are counted
C10_Witness ==
  /\ lt.pc = "returned" /\ lt.num_requests = 3
  /\ lt.futures[1].reply.exc = "Timeout"
  /\ lt.futures[2].reply.status = 200
  /\ lt.futures[3].reply.status = 201
  /\ lt.result.successful_requests = 1
  /\ lt.result.failed_requests = 2

\* C11: when run_socket_load_test called with num_clients = N has returned,
\* total_clients = N and connected_clients + failed_connections = N, for every
\* interleaving of the worker threads in add_connection.
C11_SocketCounts ==
  sock.pc = "returned" =>
    /\ sock.result.total_clients = sock.num_clients
    /\ sock.result.connected_clients + sock.result.failed_connections = sock.num_clients

\* C12: during run_load_test with concurrency = C at most C registration
\* requests are in flight, and during run_socket_load_test with concurrency = C
\* at most C client sessions (connect, events, disconnect) are running.
C12_ConcurrencyCap ==
  /\ Cardinality(FuturesIn("running")) <= lt.concurrency
  /\ Cardinality(ClientsAt(SessionPcs)) <= sock.concurrency

\* two sessions run with concurrency 2 while a third client waits for a worker
C12_Witness ==
  /\ sock.concurrency = 2
  /\ Cardinality(ClientsAt(SessionPcs)) = 2
  /\ ClientsAt({"pending"}) # {}

\* Client c received, in this step, exactly the event e and nothing else.
Got(c, e) == ws'.inbox[c] = Append(ws.inbox[c], e)

\* In this step the event e went to the clients in to and to no other client.
DeliveredTo(to, e) ==
  \A c \in WsClients : IF c \in to THEN Got(c, e) ELSE ws'.inbox[c] = ws.inbox[c]

\* C13: a broadcast_timer (project_answer) message causes one timer_update
\* (answer_display) event with the sender's activity_id and payload for every
\* other connected client and none for the sender; 'connected' and
\* 'display_joined' go only to the client that connected or sent join_display;
\* 'joined_activity' goes to every connected client, the sender included.
C13_WsRecipients ==
  [][LET m == ws'.last IN
     /\ m.event = "broadcast_timer"
          => DeliveredTo(ws.connected \ {m.sid},
                         [name |-> "timer_update",
                          payload |-> [activity_id |-> MsgGet(m, "activity_id"),
                                       time_remaining |-> MsgGet(m, "time_remaining")]])
     /\ m.event = "project_answer"
          => DeliveredTo(ws.connected \ {m.sid},
                         [name |-> "answer_display",
                          payload |-> [activity_id |-> MsgGet(m, "activity_id"),
                                       answer |-> MsgGet(m, "answer")]])
     /\ m.event = "connect"
          => DeliveredTo({m.sid}, [name |-> "connected",
                                   payload |-> [status |-> "connected"]])
     /\ m.event = "join_display"
          => DeliveredTo({m.sid}, [name |-> "display_joined",
                                   payload |-> [status |-> "connected"]])
     /\ m.event = "join_activity" /\ "activity_id" \in m.has
          => DeliveredTo(ws.connected,
                         [name |-> "joined_activity",
                          payload |-> [activity_id |-> Some(m.activity_id)]])]_ws

\* three clients are connected and one of them has sent broadcast_timer
C13_Witness ==
  /\ ws.connected = WsClients
  /\ ws.last.event = "broadcast_timer"

\* C14: every activity created by create_activity starts with status
\* 'preparing', display_mode 'none', no current question and no started_at,
\* whatever the body holds; the status of an activity leaves 'preparing' only by
\* an update_activity request for that activity.
C14_NewActivityPreparing ==
  [][/\ \A a \in DOMAIN db'.activities \ DOMAIN db.activities :
          /\ reqs'[1].h = "create_activity" /\ reqs'[1].new_id = a
          /\ db'.activities[a].status = "preparing"
          /\ db'.activities[a].display_mode = "none"
          /\ db'.activities[a].current_question_id = None
          /\ db'.activities[a].started_at = None
     /\ \A a \in DOMAIN db.activities :
          db.activities[a].status = "preparing" /\ db'.activities[a].status # "preparing"
            => /\ reqs'[1].h = "update_activity" /\ reqs'[1].id = a
               /\ "status" \in reqs'[1].data.has]_vars

\* an activity was created from a body that asks for status 'active'
C14_Witness ==
  /\ Last.h = "create_activity" /\ Last.code = 201
  /\ Last.data.has = {"status", "display_mode", "current_question_id"}
  /\ Last.new_id \in DOMAIN db.activities
  /\ db.activities[Last.new_id].status = "preparing"

\* A step that serves a get_activity or get_activity_groups request.
ReadServed ==
  /\ reqs'[1] # reqs[1] \/ db' # db
  /\ reqs'[1].h \in {"get_activity", "get_activity_groups"}
  /\ reqs'[1].pc = "done"

\* C15: get_activity and get_activity_groups answer 404 with error 'Activity
\* not found' and no activity data when no activity has the requested id; they
\* change no table and emit no event.
C15_NotFound ==
  [][ReadServed
       => /\ db' = db
          /\ reqs'[1].events = <<>>
          /\ reqs'[1].id \notin DOMAIN db.activities
               => /\ reqs'[1].code = 404
                  /\ reqs'[1].body = [NoBody EXCEPT !.error = "Activity not found"]]_vars

\* get_activity_groups was asked for an id one past the only activity
C15_Witness ==
  /\ Last.h = "get_activity_groups" /\ Last.pc = "done" /\ Last.code = 404
  /\ Last.id = 2 /\ 1 \in DOMAIN db.activities

\* what the claim says get_statistics returns for the recorded times
StatisticsAsClaimed(times, stats) ==
  LET n == Len(times)
      sorted == Sorted(times)
  IN  IF n = 0 THEN stats.empty
      ELSE /\ ~stats.empty /\ ~stats.raised
           /\ n \div 2 \in 0..(n - 1)
           /\ (95 * n) \div 100 \in 0..(n - 1)
           /\ (99 * n) \div 100 \in 0..(n - 1)
           /\ stats.median = sorted[n \div 2 + 1]
           /\ stats.p95 = sorted[(95 * n) \div 100 + 1]
           /\ stats.p99 = sorted[(99 * n) \div 100 + 1]
           /\ stats.min <= stats.median /\ stats.median <= stats.p95
           /\ stats.p95 <= stats.p99 /\ stats.p99 <= stats.max

\* C16: for a non-empty list of n times get_statistics reads the median at
\* index n div 2, p95 at floor(0.95 n) and p99 at floor(0.99 n) of the sorted
\* list, every index is within 0..n-1 and min <= median <= p95 <= p99 <= max;
\* with no recorded request LoadTestResult.get_statistics returns nothing.
C16_Percentiles ==
  /\ lt.pc = "printed" => StatisticsAsClaimed(lt.result.response_times, lt.stats)
  /\ sock.pc = "printed" /\ sock.result.connection_times # <<>>
       => StatisticsAsClaimed(sock.result.connection_times, sock.stats)

\* 21 distinct times: p95 is read at index 19 and p99 at index 20
C16_Witness ==
  /\ lt.pc = "printed" /\ Len(lt.result.response_times) = 21
  /\ lt.stats.median = 11 /\ lt.stats.p95 = 20 /\ lt.stats.p99 = 21

\* C17: whenever an activity stores a non-empty list of named groups, its
\* stored groups_count equals the number of names.
C17_GroupsCountMatches ==
  \A a \in DOMAIN db.activities :
    LET row == db.activities[a] IN
    row.groups # None => row.groups_count = Some(Len(row.groups[1]))

\* C18: for an existing activity get_activity_groups returns the stored custom
\* names when the stored groups list is non-empty; otherwise, when groups_count
\* is a positive n, exactly the n generated names numbered 1..n in order;
\* otherwise an empty list.  It changes no stored state.
C18_GroupList ==
  [][ReadServed /\ reqs'[1].h = "get_activity_groups"
       /\ reqs'[1].id \in DOMAIN db.activities
       => LET row  == db.activities[reqs'[1].id]
              list == reqs'[1].body.groups
          IN  /\ db' = db
              /\ reqs'[1].code = 200
              /\ IF row.groups # None /\ row.groups[1] # <<>>
                 THEN list = row.groups[1]
                 ELSE IF row.groups_count # None /\ row.groups_count[1] > 0
                 THEN /\ Len(list) = row.groups_count[1]
                      /\ \A i \in 1..Len(list) : list[i] = GroupName(i)
                 ELSE list = <<>>]_vars

\* three names were generated for an activity stored with a count and no names
C18_Witness ==
  /\ Last.h = "get_activity_groups" /\ Last.pc = "done" /\ Last.code = 200
  /\ Last.id \in DOMAIN db.activities
  /\ db.activities[Last.id].groups = None
  /\ db.activities[Last.id].groups_count = Some(3)
  /\ Last.body.groups = <<"group 1", "group 2", "group 3">>

\* C19: in every reachable state each user row refers to an existing activity
\* and each answer row to an existing activity, question and user.
C19_RowsReferToExistingRows ==
  /\ \A u \in DOMAIN db.users : db.users[u].activity_id \in DOMAIN db.activities
  /\ \A a \in DOMAIN db.answers :
       /\ db.answers[a].activity_id \in DOMAIN db.activities
       /\ db.answers[a].question_id \in DOMAIN db.questions
       /\ db.answers[a].user_id \in DOMAIN db.users

\* C20: after any sequence of create_question and update_question the stored
\* answer_limit of every question is NULL or a positive integer.
C20_LimitNullOrPositive ==
  \A q \in DOMAIN db.questions :
    db.questions[q].answer_limit = None \/ db.questions[q].answer_limit[1] > 0

\* the body without its projected_answer and stats_limit keys
WithoutProjection(data) ==
  [data EXCEPT !.has = @ \ {"projected_answer", "stats_limit"},
               !.projected_answer = "", !.stats_limit = 0]

\* A step that serves an update_activity request with projected_answer or
\* stats_limit in its body.
ProjectionServed ==
  /\ reqs'[1] # reqs[1] \/ db' # db
  /\ reqs'[1].h = "update_activity" /\ reqs'[1].pc = "done"
  /\ reqs'[1].data.has \cap {"projected_answer", "stats_limit"} # {}

\* C21: projected_answer and stats_limit of an update_activity request are never
\* stored: the database after the request is the one the same request without
\* the two keys leaves; a request with only those keys, with or without
\* display_mode, leaves every column of the activity other than display_mode
\* unchanged; and the two values are sent in the events of that request.
C21_ProjectionNotStored ==
  [][ProjectionServed
       => LET r    == reqs'[1]
              data == r.data
              bare == Served(NewReq("update_activity", r.id,
                                    WithoutProjection(data), "update"))
          IN  /\ db' = bare.db
              /\ data.has \subseteq {"display_mode", "projected_answer", "stats_limit"}
                   => /\ db' = [db EXCEPT !.activities =
                                  [a \in DOMAIN db.activities |->
                                     IF a = r.id /\ "display_mode" \in data.has
                                     THEN [db.activities[a] EXCEPT
                                             !.display_mode = data.display_mode]
                                     ELSE db.activities[a]]]
                      /\ r.code = 200
              /\ Len(r.events) >= 1
              /\ r.events[1].name = "activity_updated"
              /\ r.events[1].payload.updates = data
              /\ "display_mode" \in data.has
                   => /\ Len(r.events) = 2
                      /\ r.events[2].name = "display_update"
                      /\ "projected_answer" \in data.has
                           => r.events[2].payload.answer = data.projected_answer
                      /\ "stats_limit" \in data.has
                           => r.events[2].payload.stats_limit = data.stats_limit]_vars

\* an answer was projected with a stats limit on an activity that is shown
\* with the requested display_mode and is otherwise as it was created
C21_Witness ==
  /\ Last.h = "update_activity" /\ Last.pc = "done" /\ Last.code = 200
  /\ Last.data.has = {"display_mode", "projected_answer", "stats_limit"}
  /\ Last.id \in DOMAIN db.activities
  /\ db.activities[Last.id].display_mode = Last.data.display_mode
  /\ db.activities[Last.id].status = "preparing"
  /\ Len(Last.events) = 2
  /\ Last.events[2].payload.answer = "an answer"

\* C22: no client is counted in disconnected_clients more than once, so when
\* run_socket_load_test has returned disconnected_clients <= connected_clients.
C22_DisconnectedWithinConnected ==
  sock.pc = "returned"
    => sock.result.disconnected_clients <= sock.result.connected_clients

\* C23: events_failed[e] <= events_sent[e] for every event name e in every
\* reachable state.
C23_FailedWithinSent ==
  \A e \in EventNames : sock.result.events_failed[e] <= sock.result.events_sent[e]

\* the sum of f over the finite set S
RECURSIVE SumOver(_, _)
SumOver(f, S) ==
  IF S = {} THEN 0
  ELSE LET x == CHOOSE x \in S : TRUE IN f[x] + SumOver(f, S \ {x})

\* The test has returned and no handler is running or has a packet to handle.
TestEnded ==
  /\ sock.pc = "returned"
  /\ \A c \in 1..Len(sock.clients) :
       /\ sock.clients[c].rpc = "idle"
       /\ sock.clients[c].link => sock.clients[c].inbox = <<>>

\* C27: at the end of a socket load test the global events_received count
\* equals the sum over clients of the per-client events_received counters of
\* client_states, and likewise for events_sent.
C27_EventSums ==
  TestEnded
    => /\ SumOver(sock.result.events_received, EventNames)
            = SumOver([c \in 1..Len(sock.clients) |->
                         sock.result.client_states[c].events_received],
                      1..Len(sock.clients))
       /\ SumOver(sock.result.events_sent, EventNames)
            = SumOver([c \in 1..Len(sock.clients) |->
                         sock.result.client_states[c].events_sent],
                      1..Len(sock.clients))

\* C24: in every reachable state the current_question_id of each activity is
\* NULL or the id of a question that exists.
C24_CurrentQuestionExists ==
  \A a \in DOMAIN db.activities :
    LET q == db.activities[a].current_question_id IN
    q = None \/ q[1] \in DOMAIN db.questions

\* C25: for an activity with a current question get_activity_stats returns one
\* user_stats row per user of the activity, and the sum of their answer_count
\* values, and the sum of total_answers over group_stats, equals the number of
\* stored answers with that activity_id and question_id; without a current
\* question both lists are empty.
C25_StatsSums ==
  Last.h = "get_activity_stats" /\ Last.pc = "done" /\ Last.id \in DOMAIN db.activities
    => LET stats   == Last.body.stats[1]
           current == db.activities[Last.id].current_question_id
           stored  == {a \in DOMAIN db.answers :
                         /\ db.answers[a].activity_id = Last.id
                         /\ db.answers[a].question_id = current[1]}
       IN  IF current = None
           THEN stats.user_stats = <<>> /\ stats.group_stats = <<>>
           ELSE /\ DOMAIN stats.user_stats = UsersOf(db, Last.id)
                /\ SumOver([u \in DOMAIN stats.user_stats |->
                              stats.user_stats[u].answer_count],
                           DOMAIN stats.user_stats) = Cardinality(stored)
                /\ SumOver([g \in DOMAIN stats.group_stats |->
                              stats.group_stats[g].total_answers],
                           DOMAIN stats.group_stats) = Cardinality(stored)

\* A step that serves an update_activity request which sets status to 'active'
\* on an existing activity.
ActivationServed ==
  /\ reqs'[1].h = "update_activity" /\ reqs'[1].pc = "done"
  /\ "status" \in reqs'[1].data.has /\ reqs'[1].data.status = "active"
  /\ reqs'[1].id \in DOMAIN db.activities

\* C26: each update_activity request that sets status to 'active' sets
\* started_at to the time of that request, overwriting any earlier value, and no
\* operation writes ended_at: it is NULL for every activity after every step,
\* also after status is set to 'ended'.
C26_StartedAtEndedAt ==
  [][/\ ActivationServed
          => /\ db'.activities[reqs'[1].id].started_at = Some(db.clock)
             /\ db'.clock > db.clock
             /\ db.activities[reqs'[1].id].started_at # None
                  => db.activities[reqs'[1].id].started_at[1] < db.clock
     /\ \A a \in DOMAIN db'.activities : db'.activities[a].ended_at = None]_vars

\* an activity that was started at time 1 is set to 'active' again and has
\* started_at 2
C26_Witness ==
  /\ Last.h = "update_activity" /\ Last.pc = "done"
  /\ "status" \in Last.data.has /\ Last.data.status = "active"
  /\ Last.id \in DOMAIN db.activities
  /\ db.activities[Last.id].started_at = Some(2)
  /\ db.activities[Last.id].ended_at = None

====
